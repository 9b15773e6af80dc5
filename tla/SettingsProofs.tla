--------------------------- MODULE SettingsProofs ---------------------------
(***************************************************************************)
(* The settings keep their form, are always presentable, and lose a        *)
(* language's texts only where two writers overlapped, for every set of    *)
(* writers, languages, files and inputs.                                   *)
(***************************************************************************)
EXTENDS Settings, TLAPS

USE SettingsAssumption

(* What the settings form and the two merges make of well-formed settings is well formed. *)
GoodSettings(s) == s \in Stored /\ InOwnLanguage(s)

LEMMA EmptyGood == GoodSettings(Empty)
BY DEF GoodSettings, Empty, Stored, InOwnLanguage, NoStrings, NoLabels, Strings, Labels

LEMMA FormGood ==
  ASSUME NEW w, w.task \in Inputs, GoodSettings(w.seen)
  PROVE  GoodSettings(FormSettings(w))
<1>1. /\ w.task.base \in Strings(DefaultLang)
      /\ w.task.rates \in [{"ask", "global"} -> Rates]
  OBVIOUS
<1>2. /\ NoLabels \in [Lang -> UNION {Labels(l) : l \in Lang}]
      /\ \A l \in Lang : NoLabels[l] \in Labels(l)
  BY DEF NoLabels, Labels
<1>3. /\ w.seen.localized \in [Lang -> UNION {Strings(l) : l \in Lang}]
      /\ \A l \in Lang : w.seen.localized[l] \in Strings(l)
  BY DEF GoodSettings, Stored, InOwnLanguage
<1> QED BY <1>1, <1>2, <1>3 DEF GoodSettings, FormSettings, Stored, InOwnLanguage

LEMMA LocalizedGood ==
  ASSUME NEW s, GoodSettings(s), NEW f \in Files
  PROVE  GoodSettings([s EXCEPT !.localized = Merge(f.strings, @)])
<1> DEFINE new == [l \in Lang |-> IF l \in DOMAIN f.strings THEN f.strings[l] ELSE s.localized[l]]
<1>1. Merge(f.strings, s.localized) = new
  BY DEF Merge, Over
<1>2. \A l \in Lang : new[l] \in Strings(l)
  BY DEF GoodSettings, InOwnLanguage
<1>3. new \in [Lang -> UNION {Strings(l) : l \in Lang}]
  BY <1>2
<1> HIDE DEF new
<1>4. [s EXCEPT !.localized = Merge(f.strings, @)]
        = [base |-> s.base, rates |-> s.rates, localized |-> new, ui |-> s.ui]
  BY <1>1 DEF GoodSettings, Stored
<1> QED BY <1>2, <1>3, <1>4 DEF GoodSettings, Stored, InOwnLanguage

LEMMA LabelsGood ==
  ASSUME NEW s, GoodSettings(s), NEW f \in Files
  PROVE  GoodSettings([s EXCEPT !.ui = Merge(f.ui, @)])
<1> DEFINE new == [l \in Lang |-> IF l \in DOMAIN f.ui THEN f.ui[l] ELSE s.ui[l]]
<1>1. Merge(f.ui, s.ui) = new
  BY DEF Merge, Over
<1>2. \A l \in Lang : new[l] \in Labels(l)
  BY DEF GoodSettings, InOwnLanguage
<1>3. new \in [Lang -> UNION {Labels(l) : l \in Lang}]
  BY <1>2
<1> HIDE DEF new
<1>4. [s EXCEPT !.ui = Merge(f.ui, @)]
        = [base |-> s.base, rates |-> s.rates, localized |-> s.localized, ui |-> new]
  BY <1>1 DEF GoodSettings, Stored
<1> QED BY <1>2, <1>3, <1>4 DEF GoodSettings, Stored, InOwnLanguage

----------------------------------------------------------------------------
(* The invariant: a writer whose reading is current holds what is stored, so *)
(* that what it writes back is what is stored but for its own part.          *)

Reading(w) == w.pc \in {"saving", "strings", "ui"}

WriterOK(p) == /\ Reading(writer[p]) => /\ GoodSettings(writer[p].seen)
                                        /\ writer[p].at \in Int /\ writer[p].at <= version
                                        /\ writer[p].at = version => writer[p].seen = stored
               /\ writer[p].pc = "saving" => writer[p].task \in Inputs
               /\ writer[p].pc \in {"strings", "labels", "ui"} => writer[p].task \in Files

LoadedOK == /\ loaded = [localized |-> loaded.localized, ui |-> loaded.ui]
            /\ loaded.localized \in [Lang -> UNION {Strings(l) : l \in Lang}]

IInv == /\ GoodSettings(stored)
        /\ version \in Nat
        /\ DOMAIN writer = Writers
        /\ \A p \in Writers : WriterOK(p)
        /\ LoadedOK
        /\ clobbered \in BOOLEAN
        /\ LostOnlyToOverlap

LEMMA InitIInv == Init => IInv
<1> SUFFICES ASSUME Init PROVE IInv
  OBVIOUS
<1>1. GoodSettings(stored)
  BY EmptyGood DEF Init
<1>2. \A p \in Writers : WriterOK(p)
  BY DEF Init, WriterOK, Reading, Idle
<1>3. LoadedOK /\ LostOnlyToOverlap
  BY DEF Init, LoadedOK, LostOnlyToOverlap, Empty, NoStrings, Strings
<1> QED BY <1>1, <1>2, <1>3 DEF IInv, Init

(* A step that only reads. *)
LEMMA ReadStep ==
  ASSUME IInv, NEW p \in Writers, NEW v,
         writer' = [writer EXCEPT ![p] = v],
         UNCHANGED <<stored, version, loaded, clobbered>>,
         Reading(v) => /\ GoodSettings(v.seen)
                       /\ v.at \in Int /\ v.at <= version
                       /\ v.at = version => v.seen = stored,
         v.pc = "saving" => v.task \in Inputs,
         v.pc \in {"strings", "labels", "ui"} => v.task \in Files
  PROVE  IInv'
<1>1. ASSUME NEW q \in Writers PROVE WriterOK(q)'
  <2>1. CASE q = p
    <3>1. writer'[q] = v
      BY <2>1 DEF IInv
    <3> QED BY <3>1 DEF WriterOK, Reading
  <2>2. CASE q # p
    <3>1. writer'[q] = writer[q]
      BY <2>2 DEF IInv
    <3>2. WriterOK(q)
      BY DEF IInv
    <3> QED BY <3>1, <3>2 DEF WriterOK, Reading
  <2> QED BY <2>1, <2>2
<1> QED BY <1>1 DEF IInv, LoadedOK, LostOnlyToOverlap

LEMMA LoadStep ==
  ASSUME IInv, NEW p \in Writers, NEW pc, NEW task, Load(p, pc, task),
         UNCHANGED <<stored, version, loaded, clobbered>>,
         pc = "saving" => task \in Inputs,
         pc \in {"strings", "labels", "ui"} => task \in Files
  PROVE  IInv'
<1> DEFINE v == [pc |-> pc, task |-> task, seen |-> stored, at |-> version]
<1>1. /\ v.pc = pc /\ v.task = task
      /\ GoodSettings(v.seen) /\ v.at \in Int /\ v.at <= version /\ v.seen = stored
  BY DEF IInv
<1>2. writer' = [writer EXCEPT ![p] = v]
  BY DEF Load
<1> HIDE DEF v
<1> QED BY <1>1, <1>2, ReadStep

(* A step that writes: every other reading is out of date from then on. *)
LEMMA WriteStep ==
  ASSUME IInv, NEW p \in Writers, NEW s, NEW v,
         UpdateSettings(p, s), GoodSettings(s),
         writer' = [writer EXCEPT ![p] = v],
         v = Idle \/ (v.pc = "labels" /\ v.task \in Files),
         LoadedOK', LostOnlyToOverlap'
  PROVE  IInv'
<1>1. version' = version + 1 /\ version \in Nat /\ stored' = s /\ clobbered' \in BOOLEAN
  BY DEF UpdateSettings, IInv
<1>2. ASSUME NEW q \in Writers PROVE WriterOK(q)'
  <2>1. CASE q = p
    <3>1. writer'[q] = v
      BY <2>1 DEF IInv
    <3> QED BY <3>1 DEF WriterOK, Reading, Idle
  <2>2. CASE q # p
    <3>1. writer'[q] = writer[q]
      BY <2>2 DEF IInv
    <3>2. WriterOK(q)
      BY DEF IInv
    <3> QED BY <1>1, <3>1, <3>2 DEF WriterOK, Reading
  <2> QED BY <2>1, <2>2
<1> QED BY <1>1, <1>2 DEF IInv, GoodSettings

LEMMA StepIInv == IInv /\ [Next]_vars => IInv'
<1> SUFFICES ASSUME IInv, [Next]_vars PROVE IInv'
  OBVIOUS
<1>1. ASSUME NEW p \in Forms, PostForm(p) PROVE IInv'
  <2> p \in Writers
    BY DEF Writers
  <2>1. PICK in \in Inputs :
           \/ Load(p, "saving", in)
           \/ writer' = [writer EXCEPT ![p] = [pc |-> "saving", task |-> in,
                                               seen |-> Empty, at |-> -1]]
    BY <1>1 DEF PostForm
  <2>2. CASE Load(p, "saving", in)
    BY <1>1, <2>2, LoadStep DEF PostForm
  <2>3. CASE writer' = [writer EXCEPT ![p] = [pc |-> "saving", task |-> in,
                                              seen |-> Empty, at |-> -1]]
    <3> DEFINE v == [pc |-> "saving", task |-> in, seen |-> Empty, at |-> -1]
    <3>1. /\ GoodSettings(v.seen) /\ v.at \in Int /\ v.at <= version /\ v.at # version
          /\ v.pc = "saving" /\ v.task \in Inputs
      BY EmptyGood DEF IInv
    <3>2. writer' = [writer EXCEPT ![p] = v]
      BY <2>3
    <3> HIDE DEF v
    <3> QED BY <1>1, <3>1, <3>2, ReadStep DEF PostForm
  <2> QED BY <2>1, <2>2, <2>3
<1>2. ASSUME NEW p \in Forms, SaveForm(p) PROVE IInv'
  <2> p \in Writers
    BY DEF Writers
  <2>0. /\ writer' = [writer EXCEPT ![p] = Idle] /\ loaded' = loaded
        /\ Reading(writer[p]) /\ writer[p].task \in Inputs /\ WriterOK(p)
    BY <1>2 DEF SaveForm, Stop, Reading, IInv, WriterOK
  <2>1. CASE UpdateSettings(p, FormSettings(writer[p]))
    <3>1. GoodSettings(FormSettings(writer[p]))
      BY <2>0, FormGood DEF WriterOK
    <3>2. LoadedOK'
      BY <2>0 DEF IInv, LoadedOK
    <3>3. LostOnlyToOverlap'
      BY <2>0, <2>1 DEF UpdateSettings, FormSettings, LostOnlyToOverlap, IInv, WriterOK
    <3> QED BY <2>0, <2>1, <3>1, <3>2, <3>3, WriteStep
  <2>2. CASE UNCHANGED <<stored, version, clobbered>>
    BY <2>0, <2>2, ReadStep DEF Reading, Idle
  <2> QED BY <1>2, <2>1, <2>2 DEF SaveForm
<1>3. ASSUME NEW p \in Loaders, StartFile(p) PROVE IInv'
  <2> p \in Writers
    BY DEF Writers
  <2>1. PICK f \in Files, pc \in {"strings", "ui"} : Load(p, pc, f)
    BY <1>3 DEF StartFile
  <2> QED BY <1>3, <2>1, LoadStep DEF StartFile
<1>4. ASSUME NEW p \in Loaders, SetLocalized(p) PROVE IInv'
  <2> p \in Writers
    BY DEF Writers
  <2> DEFINE w == writer[p]
             s == [w.seen EXCEPT !.localized = Merge(w.task.strings, @)]
             v == IF DOMAIN w.task.ui # {} THEN [Idle EXCEPT !.pc = "labels", !.task = w.task]
                  ELSE Idle
  <2>0. /\ Reading(w) /\ w.task \in Files /\ WriterOK(p)
    BY <1>4 DEF SetLocalized, Reading, IInv, WriterOK
  <2>1. CASE /\ UpdateSettings(p, s)
             /\ loaded' = [loaded EXCEPT !.localized = Over(w.task.strings, @)]
             /\ writer' = [writer EXCEPT ![p] = v]
    <3>1. GoodSettings(s)
      BY <2>0, LocalizedGood DEF WriterOK
    <3>2. loaded'.localized = Over(w.task.strings, loaded.localized)
      BY <2>1 DEF IInv, LoadedOK
    <3>3. LoadedOK'
      <4>1. Over(w.task.strings, loaded.localized)
              = [l \in Lang |-> IF l \in DOMAIN w.task.strings THEN w.task.strings[l]
                                ELSE loaded.localized[l]]
        BY DEF Over
      <4>2. \A l \in DOMAIN w.task.strings : w.task.strings[l] \in Strings(l)
        BY <2>0
      <4>3. Over(w.task.strings, loaded.localized) \in [Lang -> UNION {Strings(l) : l \in Lang}]
        BY <4>1, <4>2 DEF IInv, LoadedOK
      <4> QED BY <2>1, <3>2, <4>3 DEF IInv, LoadedOK
    <3>4. LostOnlyToOverlap'
      <4>1. SUFFICES ASSUME ~clobbered' PROVE stored'.localized = loaded'.localized
        BY DEF LostOnlyToOverlap
      <4>2. ~clobbered /\ w.seen = stored /\ stored' = s
        BY <2>0, <2>1, <4>1 DEF UpdateSettings, WriterOK
      <4>3. stored.localized = loaded.localized
        BY <4>2 DEF IInv, LostOnlyToOverlap
      <4>4. s.localized = Merge(w.task.strings, w.seen.localized)
        BY <2>0 DEF WriterOK, GoodSettings, Stored
      <4> QED BY <3>2, <4>2, <4>3, <4>4 DEF Merge
    <3>5. v = Idle \/ (v.pc = "labels" /\ v.task \in Files)
      BY <2>0 DEF Idle
    <3> HIDE DEF s, v
    <3> QED BY <2>1, <3>1, <3>3, <3>4, <3>5, WriteStep
  <2>2. CASE Stop(p) /\ UNCHANGED <<stored, version, loaded, clobbered>>
    BY <2>2, ReadStep DEF Stop, Reading, Idle
  <2> QED BY <1>4, <2>1, <2>2 DEF SetLocalized
<1>5. ASSUME NEW p \in Loaders, LoadForLabels(p) PROVE IInv'
  <2> p \in Writers
    BY DEF Writers
  <2>0. writer[p].task \in Files
    BY <1>5 DEF LoadForLabels, IInv, WriterOK
  <2>1. CASE Load(p, "ui", writer[p].task)
    BY <1>5, <2>0, <2>1, LoadStep DEF LoadForLabels
  <2>2. CASE Stop(p)
    BY <1>5, <2>2, ReadStep DEF LoadForLabels, Stop, Reading, Idle
  <2> QED BY <1>5, <2>1, <2>2 DEF LoadForLabels
<1>6. ASSUME NEW p \in Loaders, SetUILabels(p) PROVE IInv'
  <2> p \in Writers
    BY DEF Writers
  <2> DEFINE w == writer[p]
             s == [w.seen EXCEPT !.ui = Merge(w.task.ui, @)]
  <2>0. /\ Reading(w) /\ w.task \in Files /\ WriterOK(p)
        /\ writer' = [writer EXCEPT ![p] = Idle]
    BY <1>6 DEF SetUILabels, Reading, IInv, WriterOK, Stop
  <2>1. CASE UpdateSettings(p, s) /\ loaded' = [loaded EXCEPT !.ui = Over(w.task.ui, @)]
    <3>1. GoodSettings(s)
      BY <2>0, LabelsGood DEF WriterOK
    <3>2. loaded'.localized = loaded.localized
      BY <2>1 DEF IInv, LoadedOK
    <3>3. LoadedOK'
      BY <2>1, <3>2 DEF IInv, LoadedOK
    <3>4. s.localized = w.seen.localized
      BY <2>0 DEF WriterOK, GoodSettings, Stored
    <3>5. LostOnlyToOverlap'
      BY <2>0, <2>1, <3>2, <3>4 DEF UpdateSettings, LostOnlyToOverlap, IInv, WriterOK
    <3> HIDE DEF s
    <3> QED BY <2>0, <2>1, <3>1, <3>3, <3>5, WriteStep
  <2>2. CASE UNCHANGED <<stored, version, loaded, clobbered>>
    BY <2>0, <2>2, ReadStep DEF Reading, Idle
  <2> QED BY <1>6, <2>1, <2>2 DEF SetUILabels
<1>7. ASSUME UNCHANGED vars PROVE IInv'
  BY <1>7 DEF vars, IInv, WriterOK, LoadedOK, LostOnlyToOverlap
<1> QED BY <1>1, <1>2, <1>3, <1>4, <1>5, <1>6, <1>7 DEF Next

LEMMA Invariant == Spec => []IInv
BY InitIInv, StepIInv, PTL DEF Spec

(* A language's texts change only by a file that names it, unless some write *)
(* went over one its writer had not read (HandleSettings, SetLocalized and   *)
(* SetUILabels write back everything they read).                             *)
THEOREM LossCorrect == Spec => []LostOnlyToOverlap
<1>1. IInv => LostOnlyToOverlap
  BY DEF IInv
<1> QED BY <1>1, Invariant, PTL

(* No writer leaves settings from which a customer would meet a blank text, *)
(* one of another language, or a limit that limits nothing (localize).      *)
THEOREM PresentableCorrect == Spec => []AlwaysPresentable
<1>1. IInv => AlwaysPresentable
  <2> SUFFICES ASSUME IInv PROVE AlwaysPresentable
    OBVIOUS
  <2>0. GoodSettings(stored)
    BY DEF IInv
  <2>1. ASSUME NEW l \in Lang, NEW f \in Field
        PROVE  Localize(stored, l, f) \in TextOf(l) \cup {English}
    <3>1. stored.localized[l][f] \in TextOf(l) \cup {Blank}
      BY <2>0 DEF GoodSettings, InOwnLanguage, Strings
    <3>2. stored.base[f] \in TextOf(DefaultLang) \cup {Blank}
      BY <2>0 DEF GoodSettings, Stored, Strings
    <3> QED BY <3>1, <3>2 DEF Localize, FirstNonEmpty
  <2>2. ASSUME NEW l \in Lang, NEW k \in Label
        PROVE  UILabelsFor(stored, l, k) \in TextOf(l) \cup {English}
    BY <2>0 DEF GoodSettings, InOwnLanguage, Labels, UILabelsFor
  <2>3. ASSUME NEW k \in {"ask", "global"} PROVE Limit(stored, k) > 0
    BY <2>0 DEF GoodSettings, Stored, Limit, DefaultRate
  <2> QED BY <2>1, <2>2, <2>3 DEF AlwaysPresentable
<1> QED BY <1>1, Invariant, PTL
----------------------------------------------------------------------------
(* Types.  The same lemmas about the form of the settings carry them. *)

LoadedType == [localized : [Lang -> UNION {Strings(l) : l \in Lang}],
               ui : [Lang -> UNION {Labels(l) : l \in Lang}]]
WriterRecord == [pc : {"idle", "saving", "strings", "labels", "ui"},
                 task : {NoTask} \cup Inputs \cup Files, seen : Stored, at : Int]

(* p's writer becomes v; the others' readings only get older. *)
LEMMA TypeStep ==
  ASSUME TypeOK, NEW p \in Writers, NEW v \in WriterRecord,
         writer' = [writer EXCEPT ![p] = v],
         version' \in {version, version + 1}, version' <= MaxWrites,
         GoodSettings(stored)', clobbered' \in BOOLEAN, loaded' \in LoadedType,
         WriterTypeOK(v),
         p \in Forms => v.pc \in {"idle", "saving"},
         p \in Loaders => v.pc # "saving"
  PROVE  TypeOK'
<1>1. version \in Nat /\ version' \in 0 .. MaxWrites /\ version' >= version
  BY DEF TypeOK
<1>2. writer \in [Writers -> WriterRecord]
  BY DEF TypeOK, WriterRecord
<1>3. writer' \in [Writers -> WriterRecord]
  BY <1>2
<1>4. ASSUME NEW q \in Writers PROVE WriterTypeOK(writer[q])'
  <2>1. CASE q = p
    <3>1. writer'[q] = v
      BY <1>2, <2>1
    <3> QED BY <1>1, <3>1 DEF WriterTypeOK
  <2>2. CASE q # p
    <3>1. writer'[q] = writer[q]
      BY <1>2, <2>2
    <3>2. WriterTypeOK(writer[q])
      BY DEF TypeOK
    <3> QED BY <1>1, <3>1, <3>2 DEF WriterTypeOK
  <2> QED BY <2>1, <2>2
<1>5. ASSUME NEW q \in Writers
      PROVE  /\ q \in Forms => writer'[q].pc \in {"idle", "saving"}
             /\ q \in Loaders => writer'[q].pc # "saving"
  <2>1. CASE q = p
    BY <1>2, <2>1
  <2>2. CASE q # p
    BY <1>2, <2>2 DEF TypeOK
  <2> QED BY <2>1, <2>2
<1>6. Forms \subseteq Writers /\ Loaders \subseteq Writers
  BY DEF Writers
<1> QED BY <1>1, <1>3, <1>4, <1>5, <1>6 DEF TypeOK, GoodSettings, LoadedType, WriterRecord

LEMMA IdleType == Idle \in WriterRecord /\ WriterTypeOK(Idle) /\ Idle.pc = "idle"
<1>1. Empty \in Stored
  BY EmptyGood DEF GoodSettings
<1> QED BY <1>1 DEF Idle, WriterRecord, WriterTypeOK

LEMMA InitType == Init => TypeOK
<1> SUFFICES ASSUME Init PROVE TypeOK
  OBVIOUS
<1>1. GoodSettings(stored)
  BY EmptyGood DEF Init
<1>2. /\ NoStrings \in [Lang -> UNION {Strings(l) : l \in Lang}]
      /\ NoLabels \in [Lang -> UNION {Labels(l) : l \in Lang}]
  BY DEF NoStrings, NoLabels, Strings, Labels
<1>3. loaded \in LoadedType
  BY <1>2 DEF Init, LoadedType
<1>4. /\ writer \in [Writers -> WriterRecord]
      /\ \A p \in Writers : WriterTypeOK(writer[p]) /\ writer[p].pc = "idle"
  BY IdleType DEF Init
<1>5. Forms \subseteq Writers /\ Loaders \subseteq Writers
  BY DEF Writers
<1>6. version \in 0 .. MaxWrites
  <2>1. MaxWrites \in Nat
    OBVIOUS
  <2> QED BY <2>1 DEF Init
<1>7. clobbered \in BOOLEAN
  BY DEF Init
<1> QED BY <1>1, <1>3, <1>4, <1>5, <1>6, <1>7
       DEF TypeOK, GoodSettings, LoadedType, WriterRecord

(* A writer that stops, having written or not. *)
LEMMA StopType ==
  ASSUME TypeOK, NEW p \in Writers, Stop(p),
         \/ /\ UNCHANGED <<stored, version, clobbered>>
            /\ loaded' \in LoadedType
         \/ \E s : UpdateSettings(p, s) /\ GoodSettings(s) /\ loaded' \in LoadedType
  PROVE  TypeOK'
<1>1. version \in 0 .. MaxWrites
  BY DEF TypeOK
<1>2. /\ GoodSettings(stored)' /\ clobbered' \in BOOLEAN /\ loaded' \in LoadedType
      /\ version' \in {version, version + 1} /\ version' <= MaxWrites
  <2>1. CASE UNCHANGED <<stored, version, clobbered>> /\ loaded' \in LoadedType
    <3>1. GoodSettings(stored)'
      <4>1. GoodSettings(stored)
        BY DEF TypeOK, GoodSettings
      <4> QED BY <2>1, <4>1 DEF GoodSettings, InOwnLanguage
    <3>2. clobbered' \in BOOLEAN /\ version' = version /\ version' <= MaxWrites
      BY <1>1, <2>1 DEF TypeOK
    <3> QED BY <2>1, <3>1, <3>2
  <2>2. ASSUME NEW s, UpdateSettings(p, s), GoodSettings(s), loaded' \in LoadedType
        PROVE  /\ GoodSettings(stored)' /\ clobbered' \in BOOLEAN
               /\ version' \in {version, version + 1} /\ version' <= MaxWrites
    BY <1>1, <2>2 DEF UpdateSettings, GoodSettings, TypeOK
  <2> QED BY <2>1, <2>2
<1> QED BY <1>2, IdleType, TypeStep DEF Stop

(* A writer that reads. *)
LEMMA LoadType ==
  ASSUME TypeOK, NEW p \in Writers, NEW pc, NEW task, Load(p, pc, task),
         UNCHANGED <<stored, version, loaded, clobbered>>,
         \/ pc = "saving" /\ task \in Inputs /\ p \in Forms
         \/ pc \in {"strings", "ui"} /\ task \in Files /\ p \in Loaders
  PROVE  TypeOK'
<1> DEFINE v == [pc |-> pc, task |-> task, seen |-> stored, at |-> version]
<1>1. version \in 0 .. MaxWrites /\ GoodSettings(stored)
  BY DEF TypeOK, GoodSettings
<1>2. v \in WriterRecord
  BY <1>1 DEF WriterRecord, GoodSettings
<1>3. WriterTypeOK(v)
  BY <1>1 DEF WriterTypeOK, GoodSettings
<1>4. GoodSettings(stored)' /\ clobbered' \in BOOLEAN /\ loaded' \in LoadedType
  BY DEF TypeOK, LoadedType, GoodSettings
<1>5. /\ writer' = [writer EXCEPT ![p] = v]
      /\ p \in Forms => v.pc \in {"idle", "saving"}
      /\ p \in Loaders => v.pc # "saving"
  BY DEF Load
<1>6. version' \in {version, version + 1} /\ version' <= MaxWrites
  BY <1>1
<1> HIDE DEF v
<1> QED BY <1>2, <1>3, <1>4, <1>5, <1>6, TypeStep

LEMMA StepType == TypeOK /\ [Next]_vars => TypeOK'
<1> SUFFICES ASSUME TypeOK, [Next]_vars PROVE TypeOK'
  OBVIOUS
<1>0. /\ \A p \in Writers : WriterTypeOK(writer[p])
      /\ GoodSettings(stored) /\ version \in 0 .. MaxWrites
      /\ clobbered \in BOOLEAN /\ loaded \in LoadedType
  BY DEF TypeOK, GoodSettings, LoadedType
<1>1. ASSUME NEW p \in Forms, PostForm(p) PROVE TypeOK'
  <2> p \in Writers
    BY DEF Writers
  <2>1. PICK in \in Inputs :
           \/ Load(p, "saving", in)
           \/ writer' = [writer EXCEPT ![p] = [pc |-> "saving", task |-> in,
                                               seen |-> Empty, at |-> -1]]
    BY <1>1 DEF PostForm
  <2>2. CASE Load(p, "saving", in)
    BY <1>1, <2>2, LoadType DEF PostForm
  <2>3. CASE writer' = [writer EXCEPT ![p] = [pc |-> "saving", task |-> in,
                                              seen |-> Empty, at |-> -1]]
    <3> DEFINE v == [pc |-> "saving", task |-> in, seen |-> Empty, at |-> -1]
    <3>1. v \in WriterRecord
      BY EmptyGood DEF WriterRecord, GoodSettings
    <3>2. UNCHANGED <<stored, version, loaded, clobbered>>
      BY <1>1 DEF PostForm
    <3>3. WriterTypeOK(v)
      BY <1>0, EmptyGood DEF WriterTypeOK, GoodSettings
    <3>4. GoodSettings(stored)' /\ clobbered' \in BOOLEAN /\ loaded' \in LoadedType
      BY <1>0, <3>2 DEF GoodSettings
    <3>5. v.pc = "saving" /\ p \notin Loaders /\ writer' = [writer EXCEPT ![p] = v]
      BY <2>3
    <3>6. version' \in {version, version + 1} /\ version' <= MaxWrites
      BY <1>0, <3>2
    <3> HIDE DEF v
    <3> QED BY <3>1, <3>3, <3>4, <3>5, <3>6, TypeStep
  <2> QED BY <2>1, <2>2, <2>3
<1>2. ASSUME NEW p \in Forms, SaveForm(p) PROVE TypeOK'
  <2> p \in Writers
    BY DEF Writers
  <2>1. writer[p].task \in Inputs /\ GoodSettings(writer[p].seen)
    BY <1>0, <1>2 DEF SaveForm, WriterTypeOK, Idle, GoodSettings
  <2>2. GoodSettings(FormSettings(writer[p]))
    BY <2>1, FormGood
  <2> QED BY <1>0, <1>2, <2>2, StopType DEF SaveForm
<1>3. ASSUME NEW p \in Loaders, StartFile(p) PROVE TypeOK'
  <2> p \in Writers
    BY DEF Writers
  <2>1. PICK f \in Files, pc \in {"strings", "ui"} : Load(p, pc, f)
    BY <1>3 DEF StartFile
  <2> QED BY <1>3, <2>1, LoadType DEF StartFile
<1>4. ASSUME NEW p \in Loaders, SetLocalized(p) PROVE TypeOK'
  <2> p \in Writers
    BY DEF Writers
  <2> DEFINE w == writer[p]
             s == [w.seen EXCEPT !.localized = Merge(w.task.strings, @)]
             v == [Idle EXCEPT !.pc = "labels", !.task = w.task]
  <2>1. w.task \in Files /\ GoodSettings(w.seen)
    BY <1>0, <1>4 DEF SetLocalized, WriterTypeOK, Idle, GoodSettings
  <2>2. GoodSettings(s)
    BY <2>1, LocalizedGood
  <2>3. Over(w.task.strings, loaded.localized) \in [Lang -> UNION {Strings(l) : l \in Lang}]
    <3>1. \A l \in DOMAIN w.task.strings : w.task.strings[l] \in Strings(l)
      BY <2>1
    <3> QED BY <1>0, <3>1 DEF Over, LoadedType
  <2>4. loaded' = [loaded EXCEPT !.localized = Over(w.task.strings, @)] => loaded' \in LoadedType
    BY <1>0, <2>3 DEF LoadedType
  <2>5. /\ v \in WriterRecord /\ v.pc = "labels" /\ p \notin Forms
        /\ WriterTypeOK(v)
    <3>1. v \in WriterRecord
      BY <2>1, IdleType DEF WriterRecord
    <3>2. v.pc = "labels" /\ v.task = w.task /\ v.seen = Empty /\ v.at = 0
      BY DEF Idle
    <3> QED BY <2>1, <3>1, <3>2 DEF WriterTypeOK
  <2>6. CASE /\ UpdateSettings(p, s)
             /\ loaded' = [loaded EXCEPT !.localized = Over(w.task.strings, @)]
             /\ writer' = [writer EXCEPT ![p] = v]
    <3>1. /\ version' = version + 1 /\ version' <= MaxWrites
          /\ stored' = s /\ clobbered' \in BOOLEAN
      BY <1>0, <2>6 DEF UpdateSettings
    <3>2. GoodSettings(stored)'
      BY <2>2, <3>1 DEF GoodSettings
    <3> HIDE DEF s, v
    <3> QED BY <2>4, <2>5, <2>6, <3>1, <3>2, TypeStep
  <2>7. CASE /\ UpdateSettings(p, s)
             /\ loaded' = [loaded EXCEPT !.localized = Over(w.task.strings, @)]
             /\ writer' = [writer EXCEPT ![p] = Idle]
    BY <2>2, <2>4, <2>7, StopType DEF Stop
  <2>8. CASE Stop(p) /\ UNCHANGED <<stored, version, loaded, clobbered>>
    BY <1>0, <2>8, StopType
  <2> QED BY <1>4, <2>6, <2>7, <2>8 DEF SetLocalized
<1>5. ASSUME NEW p \in Loaders, LoadForLabels(p) PROVE TypeOK'
  <2> p \in Writers
    BY DEF Writers
  <2>1. writer[p].task \in Files
    BY <1>0, <1>5 DEF LoadForLabels, WriterTypeOK, Idle
  <2>2. CASE Load(p, "ui", writer[p].task)
    BY <1>5, <2>1, <2>2, LoadType DEF LoadForLabels
  <2>3. CASE Stop(p)
    BY <1>0, <1>5, <2>3, StopType DEF LoadForLabels
  <2> QED BY <1>5, <2>2, <2>3 DEF LoadForLabels
<1>6. ASSUME NEW p \in Loaders, SetUILabels(p) PROVE TypeOK'
  <2> p \in Writers
    BY DEF Writers
  <2> DEFINE w == writer[p]
             s == [w.seen EXCEPT !.ui = Merge(w.task.ui, @)]
  <2>1. w.task \in Files /\ GoodSettings(w.seen)
    BY <1>0, <1>6 DEF SetUILabels, WriterTypeOK, Idle, GoodSettings
  <2>2. GoodSettings(s)
    BY <2>1, LabelsGood
  <2>3. Over(w.task.ui, loaded.ui) \in [Lang -> UNION {Labels(l) : l \in Lang}]
    <3>1. \A l \in DOMAIN w.task.ui : w.task.ui[l] \in Labels(l)
      BY <2>1
    <3> QED BY <1>0, <3>1 DEF Over, LoadedType
  <2>4. loaded' = [loaded EXCEPT !.ui = Over(w.task.ui, @)] => loaded' \in LoadedType
    BY <1>0, <2>3 DEF LoadedType
  <2> HIDE DEF s
  <2> QED BY <1>0, <1>6, <2>2, <2>4, StopType DEF SetUILabels, s
<1>7. CASE UNCHANGED vars
  BY <1>7 DEF vars, TypeOK, WriterTypeOK, InOwnLanguage
<1> QED BY <1>1, <1>2, <1>3, <1>4, <1>5, <1>6, <1>7 DEF Next

(* Every text is stored and read back under its own language, and a writer's *)
(* reading is well formed whatever was written or failed meanwhile           *)
(* (HandleSettings, SetLocalized, SetUILabels).                              *)
THEOREM TypeCorrect == Spec => []TypeOK
BY InitType, StepType, PTL DEF Spec
=============================================================================
