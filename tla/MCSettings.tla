----------------------------- MODULE MCSettings -----------------------------
(* Small values for the constants of Settings. *)
EXTENDS Settings, TLC

SomeField == {"welcome", "ask"}

Base(w, a) == [welcome |-> w, ask |-> a]
T(l, n) == <<l, n>>

\* A form with both texts, one with one of them and no limits.
SomeInputs == {[base |-> Base(T("en", 1), T("en", 2)), rates |-> [ask |-> 5, global |-> 5]],
               [base |-> Base(Blank, T("en", 1)), rates |-> [ask |-> 0, global |-> -1]]}

SomeRates == {-1, 0, 5}

Only(l, x) == [m \in {l} |-> x]
NoEntries == [m \in {} |-> Blank]

\* A file of texts, one of labels, one of both, one that clears a language.
SomeFiles ==
  {[strings |-> Only("my", Base(T("my", 1), Blank)), ui |-> NoEntries],
   [strings |-> NoEntries, ui |-> Only("my", [send |-> T("my", 1)])],
   [strings |-> Only("en", Base(T("en", 2), T("en", 1))) @@ Only("my", Base(Blank, T("my", 2))),
    ui |-> Only("en", [send |-> T("en", 1)])],
   [strings |-> Only("my", Base(Blank, Blank)), ui |-> Only("my", [send |-> Blank])]}
=============================================================================
