-------------------------------- MODULE Menu --------------------------------
(***************************************************************************)
(* The button menus over a FAQ table that editors change while customers   *)
(* browse it.                                                              *)
(*                                                                         *)
(* Telegram (telegram/menu.go) edits the message whose button was tapped:  *)
(* main menu, category, answer; each greeting sends another message.       *)
(* Messenger (messenger/menu.go) sends quick replies, which go away with   *)
(* the next message, and carousels, which stay.  The web widget            *)
(* (webapi/api.go, widget/widget.js) loads the categories and the FAQs of  *)
(* a language with two requests, the second of them two queries, and then  *)
(* browses what it loaded; a switch of the language loads again.  A button *)
(* carries a category's name or a FAQ's id, and the table may have changed *)
(* since it was drawn.                                                     *)
(*                                                                         *)
(* Customers share nothing but the table, which none of them changes, so a *)
(* behaviour follows one of them, on one of the channels.                  *)
(***************************************************************************)
EXTENDS Integers, FiniteSets

CONSTANTS
    Channels,       \* of "telegram", "messenger", "widget": those in use
    Names,          \* category names
    NoName,         \* no category (NULL in the table, "" in the code)
    Cut,            \* name -> what truncData leaves of it in a Telegram button
    Broken,         \* of what it leaves: that whose last character is cut through
    Langs, Lang,    \* the FAQs' languages; the one the channels serve
    MaxFaqs,        \* bound: FAQ ids
    MaxCategories,  \* categories in a Messenger menu (12)
    MaxCards,       \* cards in a Messenger carousel (10)
    MaxEdits,       \* bound: edits of the table
    Slots,          \* bound: taps and greetings under way together
    Messages,       \* bound: messages of a chat the customer still taps in
    LoadSlots,      \* bound: loads of the widget under way together
    Tables          \* the tables a run starts from

FaqRow == [cat : Names \union {NoName}, lang : Langs]

ASSUME MenuAssumption ==
    /\ {MaxCategories, MaxCards} \subseteq Nat \ {0}
    /\ {MaxFaqs, MaxEdits} \subseteq Nat
    /\ Lang \in Langs
    /\ NoName \notin Broken
    /\ \A t \in Tables :
          DOMAIN t \subseteq 1..MaxFaqs /\ \A i \in DOMAIN t : t[i] \in FaqRow

VARIABLES
    faqs,       \* id -> [cat, lang] of the live rows
    edits,      \* how often the table was changed
    channel,    \* the customer's channel
    screen,     \* in a chat: message -> its buttons
    taps,       \* in a chat: slot -> tap
    web,        \* the widget: its language, what it loaded last, its chips
    loads       \* the widget: slot -> load under way

chat == <<screen, taps>>
table == <<faqs, edits>>
page == <<web, loads>>
menuVars == <<table, channel, chat, page>>

Ids == 1..MaxFaqs

Row(c, l) == [cat |-> c, lang |-> l]

\* to: what the button opens; label: the category it shows; name, id: its data;
\* made: the number of edits when the screen was built.
Button(to, label, name, id) ==
    [to |-> to, label |-> label, name |-> name, id |-> id, made |-> edits]

NoTap == [at |-> "free", button |-> <<>>, msg |-> 0, next |-> {}]

-----------------------------------------------------------------------------
(* The queries (store/faqs.go). *)

Live(lang) == {i \in DOMAIN faqs : faqs[i].lang = lang}

Lowest(S) == CHOOSE n \in S : \A k \in S : n <= k

\* Those n members of S whose key is lowest.
FirstOf(S, key(_), n) == {s \in S : Cardinality({r \in S : key(r) < key(s)}) < n}

Categories(lang) == {faqs[i].cat : i \in Live(lang)} \ {NoName}

FirstId(c) == Lowest({i \in Live(Lang) : faqs[i].cat = c})

ListByCategory_EveryLang(c, lang) == {i \in DOMAIN faqs : faqs[i].cat = c /\ c # NoName}

\* category = '' matches no row: an uncategorised FAQ's category is NULL.
ListByCategory(c, lang) == {i \in Live(lang) : faqs[i].cat = c /\ c # NoName}

-----------------------------------------------------------------------------
(* The screens, as sets of buttons. *)

Data(ch, c) == IF ch = "telegram" /\ c # NoName THEN Cut[c] ELSE c

Fixed == {Button("ask", NoName, NoName, 0), Button("main", NoName, NoName, 0)}

\* Messenger cuts the categories to the first MaxCategories.
Offered(ch) == IF ch = "messenger"
               THEN FirstOf(Categories(Lang), FirstId, MaxCategories)
               ELSE Categories(Lang)

Main(ch) == {Button("category", c, Data(ch, c), 0) : c \in Offered(ch)}
                \union {Button("ask", NoName, NoName, 0)}

Self(i) == i

Cards_All(ch, c) == {Button("answer", c, NoName, i) : i \in ListByCategory(c, Lang)}

Cards(ch, c) ==
    LET found == ListByCategory(c, Lang)
    IN  {Button("answer", c, NoName, i) : i \in
            IF ch = "messenger" THEN FirstOf(found, Self, MaxCards) ELSE found}

CategoryScreen(ch, c) ==
    Cards(ch, c) \union (IF ch = "messenger" THEN Fixed
                         ELSE {Button("main", NoName, NoName, 0)})

\* Telegram's answer always has a Back button, Messenger's only with a category.
AnswerScreen(ch, i) ==
    LET c == faqs[i].cat
    IN  Fixed \union IF ch = "messenger" /\ c = NoName THEN {}
                     ELSE {Button("back", c, Data(ch, c), i)}

AskScreen(ch) ==
    IF ch = "messenger" THEN {} ELSE {Button("main", NoName, NoName, 0)}

\* The JSON encoder writes three bytes for each byte of a character cut through:
\* the data is over Telegram's limit again, and the whole message is refused.
Deliverable(ch, S) == ch = "telegram" => \A b \in S : b.name \notin Broken

-----------------------------------------------------------------------------
NoLoad == [at |-> "free", lang |-> Lang, chips |-> {}, cats |-> {}, lists |-> <<>>,
           cfg |-> FALSE, read |-> 0, made |-> 0]

NewLoad(l) == [NoLoad EXCEPT !.at = "wait", !.lang = l, !.made = edits]

\* menu: the chips of the config drawn last; chips: those on the screen.
NewPage(l) == [lang |-> l, drawn |-> FALSE, menu |-> {}, chips |-> {}, lists |-> <<>>]

MenuInit ==
    /\ faqs \in Tables
    /\ edits = 0
    /\ channel \in Channels
    /\ screen = [m \in Messages |-> {}]
    /\ taps = [i \in Slots |-> NoTap]
    /\ web = NewPage(Lang)
    /\ loads = [j \in LoadSlots |-> NoLoad]

\* An editor creates a FAQ, moves one to another category or language, or
\* deletes one (the editing page, the admin API, loadfaqs).
Edit ==
    /\ edits < MaxEdits
    /\ edits' = edits + 1
    /\ \E i \in Ids :
          \/ \E c \in Names \union {NoName}, l \in Langs :
                faqs' = [j \in DOMAIN faqs \union {i} |-> IF j = i THEN Row(c, l)
                                                          ELSE faqs[j]]
          \/ /\ i \in DOMAIN faqs
             /\ faqs' = [j \in DOMAIN faqs \ {i} |-> faqs[j]]
    /\ UNCHANGED <<channel, chat, page>>

\* A greeting (telegram, messenger), Get Started or the persistent menu: the main
\* menu comes in a new message, in the place of one the customer taps no more.
Greet ==
    /\ channel # "widget"
    /\ \E i \in Slots, m \in Messages :
          /\ taps[i].at = "free"
          /\ \A j \in Slots : taps[j].msg # m
          /\ taps' = [taps EXCEPT ![i] = [at |-> "main", msg |-> m, next |-> {},
                                          button |-> Button("main", NoName, NoName, 0)]]
    /\ UNCHANGED <<table, channel, screen, page>>

\* The customer taps a button of some message, not waiting for an earlier tap.
Tap ==
    /\ \E i \in Slots, m \in Messages : \E b \in screen[m] :
          /\ taps[i].at = "free"
          /\ taps' = [taps EXCEPT ![i] = [at |-> "sent", button |-> b, msg |-> m,
                                          next |-> {}]]
    /\ UNCHANGED <<table, channel, screen, page>>

\* How a handler goes on from its first query: with a screen, with a query for
\* the main menu, or not at all.
Screen(S) == [at |-> "read", next |-> S]
FallBack == [at |-> "main", next |-> {}]
NoScreen == [at |-> "free", next |-> {}]

\* Telegram's webhook shows an empty category as an empty list, and nothing for a
\* FAQ that is gone.
HandleCallback(b) ==
    CASE b.to = "main" -> Screen(Main("telegram"))
      [] b.to = "ask" -> Screen(AskScreen("telegram"))
      [] b.to \in {"category", "back"} -> Screen(CategoryScreen("telegram", b.name))
      [] b.to = "answer" /\ b.id \in DOMAIN faqs -> Screen(AnswerScreen("telegram", b.id))
      [] OTHER -> NoScreen

\* Messenger's falls back to the main menu in both cases.
HandleMenu(b) ==
    CASE b.to = "main" -> Screen(Main("messenger"))
      [] b.to = "ask" -> Screen(AskScreen("messenger"))
      [] b.to \in {"category", "back"} /\ ListByCategory(b.name, Lang) # {} ->
            Screen(CategoryScreen("messenger", b.name))
      [] b.to = "answer" /\ b.id \in DOMAIN faqs -> Screen(AnswerScreen("messenger", b.id))
      [] OTHER -> FallBack

Opened(b) == IF channel = "telegram" THEN HandleCallback(b) ELSE HandleMenu(b)

\* The handler's first query.
Read(i) ==
    /\ taps[i].at = "sent"
    /\ LET o == Opened(taps[i].button)
       IN  taps' = [taps EXCEPT ![i] = IF o.at = "free" THEN NoTap
                                       ELSE [@ EXCEPT !.at = o.at, !.next = o.next]]
    /\ UNCHANGED <<table, channel, screen, page>>

\* showMainMenu's query, for a greeting or after a first query that found nothing.
ReadMain(i) ==
    /\ taps[i].at = "main"
    /\ taps' = [taps EXCEPT ![i].at = "read", ![i].next = Main(channel)]
    /\ UNCHANGED <<table, channel, screen, page>>

\* The query fails: nothing is shown (a Telegram tap is acknowledged anyway),
\* but for a question on Messenger, which falls back to the main menu.
ReadFails(i) ==
    /\ \/ taps[i].at \in {"sent", "main"} /\ taps' = [taps EXCEPT ![i] = NoTap]
       \/ /\ taps[i].at = "sent" /\ channel = "messenger" /\ taps[i].button.to = "answer"
          /\ taps' = [taps EXCEPT ![i].at = "main"]
    /\ UNCHANGED <<table, channel, screen, page>>

Answers(S) == {b \in S : b.to = "answer"}

\* A Messenger message arrives, in the place of one the customer taps no more: the
\* quick replies of the others are gone, their cards are not.
Arrives(m, S) == [n \in Messages |-> IF n = m THEN S ELSE Answers(screen[n])]

\* The screen arrives, whole or not at all.  On Telegram it takes the place of the
\* one that was tapped; a Messenger carousel may arrive without the quick replies
\* that are sent after it.
Show(i) ==
    /\ taps[i].at = "read"
    /\ taps' = [taps EXCEPT ![i] = NoTap]
    /\ \/ UNCHANGED screen
       \/ /\ channel = "telegram" /\ Deliverable(channel, taps[i].next)
          /\ screen' = [screen EXCEPT ![taps[i].msg] = taps[i].next]
       \/ /\ channel = "messenger"
          /\ \E m \in Messages :
                \/ screen' = Arrives(m, taps[i].next)
                \/ /\ Answers(taps[i].next) # {}
                   /\ screen' = Arrives(m, Answers(taps[i].next))
    /\ UNCHANGED <<table, channel, page>>

-----------------------------------------------------------------------------
(* The widget: loadThread's two requests, handleFAQs' two queries. *)

\* The page is loaded, or loaded again, in the language the browser keeps.
Load ==
    /\ channel = "widget"
    /\ web' = NewPage(web.lang)
    /\ \E j \in LoadSlots :
          loads' = [k \in LoadSlots |-> IF k = j THEN NewLoad(web.lang) ELSE NoLoad]
    /\ UNCHANGED <<table, channel, chat>>

\* langSel.onchange: the thread is emptied and loaded in another language, not
\* waiting for an earlier load.
SwitchLanguage(l) ==
    /\ channel = "widget" /\ web.drawn
    /\ l # web.lang
    /\ \E j \in LoadSlots :
          loads[j].at = "free" /\ loads' = [loads EXCEPT ![j] = NewLoad(l)]
    /\ web' = [web EXCEPT !.lang = l, !.chips = {}]
    /\ UNCHANGED <<table, channel, chat>>

\* The Browse button shows the chips of the config drawn last.
Browse ==
    /\ channel = "widget"
    /\ web' = [web EXCEPT !.chips = @ \union web.menu]
    /\ UNCHANGED <<table, channel, chat, loads>>

ReadConfig_EveryLang(j) ==
    /\ loads[j].at = "wait" /\ ~loads[j].cfg
    /\ loads' = [loads EXCEPT ![j].cfg = TRUE,
                              ![j].chips = {faqs[i].cat : i \in DOMAIN faqs} \ {NoName}]
    /\ UNCHANGED <<table, channel, chat, web>>

ReadConfig(j) ==
    /\ loads[j].at = "wait" /\ ~loads[j].cfg
    /\ loads' = [loads EXCEPT ![j].cfg = TRUE, ![j].chips = Categories(loads[j].lang)]
    /\ UNCHANGED <<table, channel, chat, web>>

ReadCategories(j) ==
    /\ loads[j].at = "wait" /\ loads[j].read = 0
    /\ loads' = [loads EXCEPT ![j].read = 1, ![j].cats = Categories(loads[j].lang)]
    /\ UNCHANGED <<table, channel, chat, web>>

\* The FAQs of each of the categories C, in language l.
Lists(C, l) == [c \in C |-> {i \in Live(l) : faqs[i].cat = c}]

\* handleFAQs groups what List returns by category, in the order of the first
\* query: a category it does not find has no list (null).
ReadList(j) ==
    /\ loads[j].at = "wait" /\ loads[j].read = 1
    /\ loads' = [loads EXCEPT ![j].read = 2, ![j].lists = Lists(loads[j].cats, loads[j].lang)]
    /\ UNCHANGED <<table, channel, chat, web>>

\* A chip of the widget: its category, and the load it comes from.
Chip(c, l, n) == [cat |-> c, lang |-> l, made |-> n]

\* Both answers are there: config and FAQs are replaced, the chips are added to
\* what the thread shows by then.
Draw(j) ==
    /\ loads[j].at = "wait" /\ loads[j].cfg /\ loads[j].read = 2
    /\ LET drawn == {Chip(c, loads[j].lang, loads[j].made) : c \in loads[j].chips}
       IN  web' = [web EXCEPT !.drawn = TRUE, !.menu = drawn, !.chips = @ \union drawn,
                              !.lists = loads[j].lists]
    /\ loads' = [loads EXCEPT ![j] = NoLoad]
    /\ UNCHANGED <<table, channel, chat>>

\* A request fails: without /config nothing is drawn, /faqs leaves no lists.
LoadFails(j) ==
    /\ loads[j].at = "wait"
    /\ \/ ~loads[j].cfg /\ loads' = [loads EXCEPT ![j] = NoLoad]
       \/ loads[j].read < 2 /\ loads' = [loads EXCEPT ![j].read = 2, ![j].cats = {},
                                                      ![j].lists = <<>>]
    /\ UNCHANGED <<table, channel, chat, web>>

MenuNext ==
    \/ Edit
    \/ Greet \/ Tap
    \/ \E i \in Slots : Read(i) \/ ReadMain(i) \/ ReadFails(i) \/ Show(i)
    \/ Load \/ Browse \/ \E l \in Langs : SwitchLanguage(l)
    \/ \E j \in LoadSlots : \/ ReadConfig(j) \/ ReadCategories(j) \/ ReadList(j)
                            \/ Draw(j) \/ LoadFails(j)

MenuSpec == MenuInit /\ [][MenuNext]_menuVars

-----------------------------------------------------------------------------
Buttons == [to : {"main", "ask", "category", "answer", "back"},
            label : Names \union {NoName},
            name : Names \union {NoName} \union {Cut[c] : c \in Names},
            id : Ids \union {0}, made : 0..MaxEdits]

TapState ==
    [at : {"free", "sent", "main", "read"}, button : Buttons \union {<<>>},
     msg : Messages \union {0}, next : SUBSET Buttons]

Chips == [cat : Names, lang : Langs, made : 0..MaxEdits]

ListState == UNION {[C -> SUBSET Ids] : C \in SUBSET Names}

PageState ==
    [lang : Langs, drawn : BOOLEAN, menu : SUBSET Chips, chips : SUBSET Chips,
     lists : ListState]

LoadState ==
    [at : {"free", "wait"}, lang : Langs, chips : SUBSET Names, cats : SUBSET Names,
     lists : ListState, cfg : BOOLEAN, read : 0..2, made : 0..MaxEdits]

\* Buttons, taps and what the widget loaded have their types, and no carousel has
\* more cards than Messenger takes.
MenuTypeOK ==
    /\ DOMAIN faqs \subseteq Ids
    /\ \A i \in DOMAIN faqs : faqs[i] \in FaqRow
    /\ edits \in 0..MaxEdits
    /\ channel \in Channels
    /\ screen \in [Messages -> SUBSET Buttons]
    /\ channel = "messenger" => \A m \in Messages : Cardinality(Answers(screen[m])) <= MaxCards
    /\ taps \in [Slots -> TapState]
    /\ \A i \in Slots : taps[i].at # "free" => taps[i].button \in Buttons
    /\ web \in PageState
    /\ loads \in [LoadSlots -> LoadState]
    /\ \A j \in LoadSlots : DOMAIN loads[j].lists \subseteq loads[j].cats

Found(S) == {b.id : b \in Answers(S)}

\* What a button promises: a category's button its questions, a question's
\* button its answer, and Back, from a question the menus list, the category
\* it is in.
KeepsPromise(b, next) ==
    CASE b.to = "category" ->
            /\ Found(next) # {}
            /\ \A i \in Found(next) : faqs[i].cat = b.label /\ faqs[i].lang = Lang
      [] b.to = "answer" -> \E r \in next : r.to = "back" /\ r.id = b.id
      [] b.to = "back" /\ b.label # NoName /\ faqs[b.id].lang = Lang ->
            /\ Found(next) # {}
            /\ \A i \in Found(next) : faqs[i].cat = b.label
      [] OTHER -> TRUE

\* The name a button sends is the category it shows.
Uncut(b) == b.to \in {"category", "back"} => b.name = b.label

\* A button keeps its promise whenever the table has not changed since its
\* screen was built, however many taps, messages and screens came in between,
\* and its data was not cut (menu.go:54-83, messenger/menu.go:50-132).
FreshButtonsKeepPromise ==
    [][\A i \in Slots :
          (Read(i) /\ taps[i].button.made = edits /\ Uncut(taps[i].button))
              => KeepsPromise(taps[i].button, taps'[i].next)]_menuVars

\* The FAQs two taps away from a channel's main menu, and their answers a third:
\* none, if Telegram refuses the menu.
Reached(ch) ==
    {i \in UNION {Found(CategoryScreen(ch, b.name)) :
                    b \in {m \in Main(ch) : m.to = "category"}} :
        Deliverable(ch, Main(ch)) /\ Deliverable(ch, AnswerScreen(ch, i))}

Categorised == {i \in Live(Lang) : faqs[i].cat # NoName}

\* "The button menu (tap category, question, answer) still works fully"
\* (DEPLOY.md:134): whatever the editors did to the table, a fresh menu reaches
\* every categorised FAQ of the language and nothing else, but
\*   on Telegram, those of a category whose name truncData cuts, and everything
\*   if it cuts some category's name inside a character (menu.go:165);
\*   on Messenger, those of a category after the first MaxCategories, and those
\*   after the first MaxCards of their category.
MenuReachesAll ==
    /\ \A ch \in {"telegram", "messenger"} : Reached(ch) \subseteq Categorised
    /\ \A i \in Categorised \ Reached("telegram") :
          Cut[faqs[i].cat] # faqs[i].cat \/ \E j \in Categorised : Cut[faqs[j].cat] \in Broken
    /\ \A i \in Categorised \ Reached("messenger") :
          \/ Cardinality({faqs[j].cat : j \in {k \in Categorised : k < i}}) >= MaxCategories
          \/ Cardinality({k \in Categorised : k < i /\ faqs[k].cat = faqs[i].cat}) >= MaxCards

\* A chip opens exactly the FAQs of its category in the language drawn last, when
\* the table did not change while the page loaded and /faqs did not fail: the two
\* requests and the three queries agree, however many loads and switches overlap
\* (api.go:151-217, widget.js:286-311).  A chip of another language, left by a
\* load that was overtaken or by Browse, may open nothing.
ChipsOpenTheirFaqs ==
    [][\A j \in LoadSlots :
          (Draw(j) /\ loads[j].made = edits /\ loads[j].cats # {})
              => \A c \in web'.chips :
                    (c.made = edits /\ c.lang = loads[j].lang) =>
                        /\ c.cat \in DOMAIN web'.lists
                        /\ web'.lists[c.cat] = {i \in Live(c.lang) : faqs[i].cat = c.cat}
                        /\ web'.lists[c.cat] # {}]_menuVars
=============================================================================
