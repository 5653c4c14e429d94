---------------------------- MODULE StageProofs ----------------------------
(***************************************************************************)
(* Proofs about Stage, for every step graph that satisfies its             *)
(* assumptions and for every bound.                                        *)
(***************************************************************************)
EXTENDS Stage, TLAPS

-----------------------------------------------------------------------------
(* Facts about the graph.                                                  *)

\* The state-free sets of a step are sets of files.
LEMMA GraphFacts ==
  ASSUME NEW s \in Steps
  PROVE  /\ Name[s] \in Names
         /\ Listed[s] \subseteq Files
         /\ Watched(s) \subseteq Files
         /\ Writes[s] \subseteq Outputs
         /\ Reads(s) \subseteq Sources \cup Outputs
         /\ Writes[s] \cap (Listed[s] \cup Reads(s)) = {}
         /\ \A w \in Writes[s] : Needs[w] \subseteq Reads(s)
         /\ Name[s] \notin Listed[s]
  BY GraphType, Ordered DEF Watched, Reads

\* Directories are not record files, so a voucher's record is watched.
LEMMA VoucherWatched ==
  ASSUME NEW s \in Steps, NEW p \in Vouchers(s)
  PROVE  p \in Steps /\ Name[p] \in Watched(s) /\ p # s
  BY GraphType, Ordered, Disjoint DEF Vouchers, Watched

\* Vis distributes over what an artefact is rebuilt from.
LEMMA VisRebuild ==
  ASSUME NEW w \in Outputs
  PROVE  Vis(Rebuild(w)) = UNION {Vis(Content(r)) : r \in Needs[w]}
  BY DEF Vis, Rebuild

\* In a command, and in a leaf command, earlier steps do not see later ones.
LEMMA EarlierBlind ==
  ASSUME TypeOK, phase # "idle", NEW i \in 1..(pos - 1)
  PROVE  /\ cmd[i] \in Steps
         /\ Name[cmd[i]] # Name[Cur]
         /\ Writes[Cur] \cap (Listed[cmd[i]] \cup Reads(cmd[i])) = {}
         /\ Name[Cur] \notin Listed[cmd[i]]
<1>1. Len(cmd) \in Nat /\ cmd \in Seq(Steps)
  BY DEF TypeOK, StoreOK
<1>2. pos \in 1..Len(cmd) /\ i \in 1..Len(cmd) /\ i < pos /\ Len(cmd) > 1
  BY <1>1 DEF TypeOK, StoreOK
<1>3. cmd \in Commands /\ cmd[i] \in Steps
  BY <1>1, <1>2 DEF TypeOK, StoreOK
<1> QED
  BY <1>2, <1>3, Ordered DEF Cur

\* The current step is a step.
LEMMA CurStep ==
  ASSUME TypeOK, phase # "idle"
  PROVE  Cur \in Steps /\ pos \in 1..Len(cmd) /\ Len(cmd) \in Nat
<1>1. Len(cmd) \in Nat /\ cmd \in Seq(Steps)
  BY DEF TypeOK, StoreOK
<1>2. pos \in 1..Len(cmd)
  BY <1>1 DEF TypeOK, StoreOK
<1> QED
  BY <1>1, <1>2 DEF Cur

-----------------------------------------------------------------------------
(* Stamps only move forward, so a record that matches after a step matched *)
(* before it and the step touched nothing it lists.                        *)

LEMMA Frozen ==
  ASSUME TypeOK, NEW s \in Steps, NEW X \in SUBSET Files,
         stamp' = [f \in Files |-> IF f \in X THEN clock + 1 ELSE stamp[f]],
         record'[Name[s]] = record[Name[s]],
         Name[s] \in recorded' => Name[s] \in recorded,
         UpToDate(s)'
  PROVE  UpToDate(s) /\ X \cap Watched(s) = {}
<1>1. Name[s] \in Names /\ Watched(s) \subseteq Files
  BY GraphFacts
<1>2. record[Name[s]] = Fingerprint(s)' /\ Name[s] \in recorded
  BY DEF UpToDate
<1>3. clock \in Nat /\ \A e \in record[Name[s]] : e[2] <= clock
  BY <1>1 DEF TypeOK, StoreOK
<1>4. Watched(s)' = Watched(s)
  BY DEF Watched
<1>5. ASSUME NEW f \in X \cap Watched(s)
      PROVE  FALSE
  <2>1. stamp'[f] = clock + 1 /\ stamp'[f] # 0
    BY <1>1, <1>3
  <2>2. <<f, clock + 1>> \in Fingerprint(s)'
    BY <2>1, <1>4 DEF Fingerprint
  <2>3. <<f, clock + 1>>[2] <= clock
    BY <2>2, <1>2, <1>3
  <2> QED
    BY <2>3, <1>3
<1>6. \A f \in Watched(s) : stamp'[f] = stamp[f]
  BY <1>1, <1>5
<1>7. Fingerprint(s)' = Fingerprint(s)
  BY <1>4, <1>6 DEF Fingerprint
<1> QED
  BY <1>2, <1>5, <1>7 DEF UpToDate

-----------------------------------------------------------------------------
(* Type correctness.                                                       *)

LEMMA MadeType ==
  ASSUME TypeOK, NEW w \in Outputs
  PROVE  Made(w) \in SUBSET Atoms
<1>1. from[w] \in SUBSET (Sources \cup Outputs)
  BY DEF TypeOK, StoreOK
<1>2. \A r \in from[w] : Content(r) \in SUBSET Atoms
  BY <1>1, Disjoint DEF TypeOK, StoreOK, Content, Atoms
<1> QED
  BY <1>2 DEF Made

LEMMA FingerprintType ==
  ASSUME TypeOK, NEW s \in Steps
  PROVE  /\ Fingerprint(s) \in SUBSET (Files \X Nat)
         /\ \A e \in Fingerprint(s) : e[2] <= clock
  BY GraphFacts DEF TypeOK, StoreOK, Fingerprint

LEMMA StampType ==
  ASSUME TypeOK, NEW X \in SUBSET Files,
         stamp' = [f \in Files |-> IF f \in X THEN clock + 1 ELSE stamp[f]],
         clock' = clock + 1
  PROVE  /\ stamp' \in [Files -> Nat]
         /\ clock' \in Nat
         /\ \A f \in Files : stamp'[f] <= clock'
         /\ \A n \in Names : \A e \in record[n] : e[2] <= clock'
<1>1. stamp \in [Files -> Nat] /\ clock \in Nat /\ (\A f \in Files : stamp[f] <= clock)
  BY DEF TypeOK, StoreOK
<1>2. stamp' \in [Files -> Nat] /\ \A f \in Files : stamp'[f] <= clock'
  BY <1>1
<1>3. ASSUME NEW n \in Names, NEW e \in record[n]
      PROVE  e[2] <= clock'
  <2>1. e[2] \in Nat /\ e[2] <= clock
    BY DEF TypeOK, StoreOK
  <2> QED
    BY <1>1, <2>1
<1> QED
  BY <1>1, <1>2, <1>3

LEMMA ProduceType ==
  ASSUME TypeOK, NEW new \in SUBSET Outputs, NEW scrap \in SUBSET Outputs,
         Produce(new, scrap), UNCHANGED record
  PROVE  /\ stamp' \in [Files -> Nat]
         /\ made' \in [Outputs -> SUBSET Atoms]
         /\ clock' \in Nat
         /\ \A f \in Files : stamp'[f] <= clock'
         /\ \A n \in Names : \A e \in record'[n] : e[2] <= clock'
<1>1. new \cup scrap \in SUBSET Files
  BY DEF Files
<1>2. \A w \in Outputs : {<<w, 0>>} \in SUBSET Atoms
  BY DEF Atoms
<1>3. made' \in [Outputs -> SUBSET Atoms]
  BY <1>2, MadeType DEF Produce, TypeOK, StoreOK
<1> QED
  BY <1>1, <1>3, StampType DEF Produce

LEMMA RemoveType ==
  ASSUME TypeOK, NEW gone, Remove(gone)
  PROVE  /\ stamp' \in [Files -> Nat]
         /\ made' \in [Outputs -> SUBSET Atoms]
         /\ recorded' \subseteq Names
         /\ \A f \in Files : stamp'[f] <= clock'
  BY DEF TypeOK, StoreOK, Remove

LEMMA AdvanceType ==
  ASSUME TypeOK, phase # "idle", Advance, UNCHANGED cmd
  PROVE  /\ pos' \in 1..(Len(cmd') + 1)
         /\ phase' \in {"idle", "check"}
         /\ phase' # "idle" => pos' <= Len(cmd')
  BY CurStep DEF Advance

LEMMA StoreInit == Init => StoreOK
<1> SUFFICES ASSUME Init PROVE StoreOK
  OBVIOUS
<1>1. \A w \in Outputs : {<<w, 0>>} \in SUBSET Atoms
  BY DEF Atoms
<1>2. made \in [Outputs -> SUBSET Atoms]
  BY <1>1 DEF Init
<1>3. cmd \in Seq(Steps) /\ Len(cmd) = 0
  BY DEF Init
<1>4. from = Needs /\ from \in [Outputs -> SUBSET (Sources \cup Outputs)]
  BY GraphType DEF Init
<1> QED
  BY <1>2, <1>3, <1>4 DEF Init, StoreOK, Files

LEMMA StoreNext == TypeOK /\ [Next]_vars => StoreOK'
<1> SUFFICES ASSUME TypeOK, [Next]_vars PROVE StoreOK'
  OBVIOUS
<1> USE DEF fileVars, procVars, counters
<1>1. ASSUME NEW c \in Commands, NEW f \in Forcible, Invoke(c, f) PROVE StoreOK'
  <2>1. c \in Seq(Steps) /\ Len(c) \in Nat /\ Len(c) > 0 /\ f \in BOOLEAN
    BY GraphType
  <2>2. from' = Needs /\ from' \in [Outputs -> SUBSET (Sources \cup Outputs)]
    BY <1>1, GraphType DEF Invoke
  <2> QED
    BY <1>1, <2>1, <2>2 DEF Invoke, TypeOK, StoreOK
<1>2. ASSUME NEW s \in Steps, NEW t \in Leaves[s], InvokeLeaf(s, t) PROVE StoreOK'
  <2>1. <<s>> \in Seq(Steps) /\ Len(<<s>>) = 1 /\ t \in [Outputs -> SUBSET (Sources \cup Outputs)]
    BY GraphType
  <2> QED
    BY <1>2, <2>1 DEF InvokeLeaf, TypeOK, StoreOK
<1>3. CASE Skip
  BY <1>3, AdvanceType DEF Skip, TypeOK, StoreOK
<1>4. CASE Run
  BY <1>4 DEF Run, TypeOK, StoreOK
<1>5. CASE Act
  <2>1. Cur \in Steps /\ Writes[Cur] \in SUBSET Outputs
    BY <1>5, CurStep, GraphFacts DEF Act
  <2>2. leaf \/ (phase' = "mark" /\ pos' = pos)
    BY <1>5 DEF Act
  <2>3. /\ pos' \in 1..(Len(cmd') + 1)
        /\ phase' \in {"idle", "check", "mark"}
        /\ phase' # "idle" => pos' <= Len(cmd')
    BY <1>5, <2>2, AdvanceType DEF Act, TypeOK, StoreOK
  <2>4. taint' \subseteq Steps
    BY <1>5, <2>1 DEF Act, Misled, Unaware, TypeOK, StoreOK
  <2>5. /\ stamp' \in [Files -> Nat]
        /\ made' \in [Outputs -> SUBSET Atoms]
        /\ clock' \in Nat
        /\ \A f \in Files : stamp'[f] <= clock'
        /\ \A n \in Names : \A e \in record'[n] : e[2] <= clock'
    <3>1. Produce(Writes[Cur], {}) /\ UNCHANGED record
      BY <1>5 DEF Act
    <3>2. {} \in SUBSET Outputs
      OBVIOUS
    <3> QED
      BY <2>1, <3>1, <3>2, ProduceType
  <2> QED
    BY <1>5, <2>3, <2>4, <2>5 DEF Act, TypeOK, StoreOK
<1>6. ASSUME phase = "act", NEW new \in SUBSET Writes[Cur], NEW scrap \in SUBSET Writes[Cur],
             StopInAct(new, scrap), breaks' \in Nat
      PROVE  StoreOK'
  <2>1. Cur \in Steps /\ new \in SUBSET Outputs /\ scrap \in SUBSET Outputs
    BY <1>6, CurStep, GraphFacts
  <2> QED
    BY <1>6, <2>1, ProduceType DEF StopInAct, Misled, Unaware, TypeOK, StoreOK
<1>7. CASE Missing
  BY <1>6, <1>7 DEF Missing, TypeOK, StoreOK
<1>8. CASE Break
  <2>1. phase = "act" /\ breaks' \in Nat
    BY <1>8 DEF Break, TypeOK, StoreOK
  <2>2. \E new, scrap \in SUBSET Writes[Cur] : StopInAct(new, scrap)
    BY <1>8 DEF Break
  <2> QED
    BY <1>6, <2>1, <2>2
<1>9. CASE Mark
  <2>1. Cur \in Steps /\ {Name[Cur]} \in SUBSET Files /\ Name[Cur] \in Names
    BY <1>9, CurStep, GraphFacts DEF Mark, Files
  <2>2. stamp' = [f \in Files |-> IF f \in {Name[Cur]} THEN clock + 1 ELSE stamp[f]]
    BY <1>9, <2>1 DEF Mark, TypeOK, StoreOK
  <2>3. /\ stamp' \in [Files -> Nat]
        /\ clock' \in Nat
        /\ \A f \in Files : stamp'[f] <= clock'
        /\ \A n \in Names : \A e \in record[n] : e[2] <= clock'
    BY <1>9, <2>1, <2>2, StampType DEF Mark
  <2>4. Fingerprint(Cur) \in SUBSET (Files \X Nat) /\ \A e \in Fingerprint(Cur) : e[2] <= clock'
    <3>1. clock' = clock + 1 /\ clock \in Nat
      BY <1>9 DEF Mark, TypeOK, StoreOK
    <3>2. \A e \in Fingerprint(Cur) : e[2] \in Nat /\ e[2] <= clock
      BY <2>1, FingerprintType
    <3> QED
      BY <2>1, <3>1, <3>2, FingerprintType
  <2>5. /\ record' \in [Names -> SUBSET (Files \X Nat)]
        /\ \A n \in Names : \A e \in record'[n] : e[2] <= clock'
    BY <1>9, <2>1, <2>3, <2>4 DEF Mark, TypeOK, StoreOK
  <2>6. /\ pos' \in 1..(Len(cmd') + 1)
        /\ phase' \in {"idle", "check"}
        /\ phase' # "idle" => pos' <= Len(cmd')
    BY <1>9, AdvanceType DEF Mark
  <2> QED
    BY <1>9, <2>1, <2>3, <2>5, <2>6 DEF Mark, TypeOK, StoreOK
<1>10. ASSUME NEW torn \in BOOLEAN, Kill(torn) PROVE StoreOK'
  <2>1. Cur \in Steps /\ {Name[Cur]} \in SUBSET Files
    BY <1>10, CurStep, GraphFacts DEF Kill, Files
  <2>2. CASE torn
    <3>1. stamp' = [f \in Files |-> IF f \in {Name[Cur]} THEN clock + 1 ELSE stamp[f]]
      BY <1>10, <2>1, <2>2 DEF Kill, TypeOK, StoreOK
    <3> QED
      BY <1>10, <2>1, <2>2, <3>1, StampType DEF Kill, TypeOK, StoreOK
  <2>3. CASE ~torn
    BY <1>10, <2>3 DEF Kill, TypeOK, StoreOK
  <2> QED
    BY <2>2, <2>3
<1>11. ASSUME NEW X \in Editable, Edit(X) PROVE StoreOK'
  <2>1. X \in SUBSET Files
    BY GraphType DEF Files
  <2>2. taint' \subseteq Steps
    BY <1>11, CurStep DEF Edit, TypeOK, StoreOK
  <2> QED
    BY <1>11, <2>1, <2>2, StampType DEF Edit, TypeOK, StoreOK
<1>12. ASSUME NEW X \in Editable, QuietEdit(X) PROVE StoreOK'
  BY <1>12 DEF QuietEdit, TypeOK, StoreOK
<1>13. ASSUME NEW full \in BOOLEAN, Clean(full) PROVE StoreOK'
  <2>1. PICK gone : Remove(gone)
    BY <1>13 DEF Clean
  <2> QED
    BY <1>13, <2>1, RemoveType DEF Clean, Remove, TypeOK, StoreOK
<1>14. ASSUME NEW gone \in Cuts, CleanCut(gone) PROVE StoreOK'
  BY <1>14, RemoveType DEF CleanCut, Remove, TypeOK, StoreOK
<1>15. CASE UNCHANGED vars
  BY <1>15 DEF vars, TypeOK, StoreOK
<1> QED
  BY <1>1, <1>2, <1>3, <1>4, <1>5, <1>7, <1>8, <1>9, <1>10, <1>11, <1>12, <1>13,
     <1>14, <1>15 DEF Next, Forge

LEMMA FlagsInit == Init => FlagsOK
BY Zenon DEF Init, FlagsOK

LEMMA FlagsNext == FlagsOK /\ [Next]_vars => FlagsOK'
<1> SUFFICES ASSUME FlagsOK, [Next]_vars PROVE FlagsOK'
  OBVIOUS
<1> USE DEF FlagsOK, fileVars, procVars, counters
<1>1. ASSUME NEW c \in Commands, NEW f \in Forcible, Invoke(c, f) PROVE FlagsOK'
  <2>1. f \in BOOLEAN
    BY GraphType, Zenon
  <2> QED
    BY <1>1, <2>1, Zenon DEF Invoke
<1>2. ASSUME NEW s \in Steps, NEW t \in Leaves[s], InvokeLeaf(s, t) PROVE FlagsOK'
  BY <1>2, Zenon DEF InvokeLeaf
<1>3. CASE Skip \/ Run \/ Act \/ Mark
  BY <1>3, Zenon DEF Skip, Run, Act, Mark
<1>4. CASE Missing \/ Break
  BY <1>4, Zenon DEF Missing, Break, StopInAct
<1>5. ASSUME NEW torn \in BOOLEAN, Kill(torn) PROVE FlagsOK'
  BY <1>5, Zenon DEF Kill
<1>6. ASSUME NEW X \in Editable, Edit(X) \/ QuietEdit(X) PROVE FlagsOK'
  BY <1>6, Zenon DEF Edit, QuietEdit
<1>7. ASSUME NEW full \in BOOLEAN, Clean(full) PROVE FlagsOK'
  BY <1>7, Zenon DEF Clean, Remove
<1>8. ASSUME NEW gone \in Cuts, CleanCut(gone) PROVE FlagsOK'
  BY <1>8, Zenon DEF CleanCut, Remove
<1>9. CASE UNCHANGED vars
  BY <1>9, Zenon DEF vars
<1> QED
  BY <1>1, <1>2, <1>3, <1>4, <1>5, <1>6, <1>7, <1>8, <1>9, Zenon DEF Next, Forge

LEMMA TypeInit == Init => TypeOK
BY FlagsInit, StoreInit DEF TypeOK

LEMMA TypeNext == TypeOK /\ [Next]_vars => TypeOK'
BY FlagsNext, StoreNext DEF TypeOK

\* The state keeps its shape, and no stamp or record is ahead of the clock.
THEOREM TypeCorrect == Spec => []TypeOK
BY TypeInit, TypeNext, PTL DEF Spec

-----------------------------------------------------------------------------
(* Records that match stand for faithful artefacts.                        *)

\* The files whose content decides Seen(s, r) for what s reads.
Base(s) ==
  {f \in DeepReads(s) : \/ f \in Sources
                        \/ f \in Watched(s)
                        \/ \E p \in Vouchers(s) : f \in Watched(p)}

\* An artefact s reads and does not watch has a direct step to vouch for it.
LEMMA Voucher ==
  ASSUME NEW s \in Steps, Linked(s), NEW r \in (Reads(s) \cap Outputs) \ Watched(s)
  PROVE  /\ \A p \in Vouchers(s) : Direct(p) /\ Vouchers(p) = {}
         /\ \E p \in Vouchers(s) : r \in Writes[p] /\ p \in Steps
  BY DEF Linked, Direct, Vouchers

\* If nothing visible changes in Base(s), nothing changes in what s should see.
LEMMA SeenKept ==
  ASSUME NEW s \in Steps, Linked(s),
         \A f \in Base(s) : Vis(Content(f))' = Vis(Content(f))
  PROVE  \A r \in Reads(s) : Vis(Seen(s, r))' = Vis(Seen(s, r))
<1> SUFFICES ASSUME NEW r \in Reads(s)
             PROVE  Vis(Seen(s, r))' = Vis(Seen(s, r))
  OBVIOUS
<1>1. CASE r \in Outputs \ Watched(s)
  <2>1. PICK p \in Vouchers(s) : p \in Steps /\ r \in Writes[p] /\ Direct(p)
    BY <1>1, Voucher
  <2>2. Needs[r] \subseteq Reads(p) /\ Reads(p) \subseteq Sources \cup Outputs
    BY <2>1, GraphFacts
  <2>3. \A f \in Needs[r] : f \in Base(s)
    BY <2>1, <2>2 DEF Base, DeepReads, Direct
  <2>4. Vis(Rebuild(r)) = UNION {Vis(Content(f)) : f \in Needs[r]}
    BY DEF Vis, Rebuild
  <2>5. Vis(Rebuild(r))' = UNION {Vis(Content(f))' : f \in Needs[r]}
    BY DEF Vis, Rebuild
  <2>6. Vis(Rebuild(r))' = Vis(Rebuild(r))
    BY <2>3, <2>4, <2>5
  <2> QED
    BY <1>1, <2>6 DEF Seen, Watched
<1>2. CASE r \notin Outputs \ Watched(s)
  <2>1. r \in Base(s)
    BY <1>2, GraphFacts DEF Base, DeepReads
  <2> QED
    BY <1>2, <2>1 DEF Seen, Watched
<1> QED
  BY <1>1, <1>2

LEMMA FaithfulKept ==
  ASSUME NEW s \in Steps, Linked(s), Faithful(s),
         \A f \in Base(s) : Vis(Content(f))' = Vis(Content(f)),
         \A w \in Writes[s] : made'[w] = made[w]
  PROVE  Faithful(s)'
<1> SUFFICES ASSUME NEW w \in Writes[s]
             PROVE  Vis(made[w])' = UNION {Vis(Seen(s, r))' : r \in Needs[w]}
  BY DEF Faithful
<1>1. \A r \in Needs[w] : Vis(Seen(s, r))' = Vis(Seen(s, r))
  BY SeenKept, GraphFacts
<1>2. Vis(made[w])' = Vis(made[w])
  BY DEF Vis
<1>3. Vis(made[w]) = UNION {Vis(Seen(s, r)) : r \in Needs[w]}
  BY DEF Faithful
<1> QED
  BY <1>1, <1>2, <1>3

\* With vouchers settled, what s should see is what is there.
LEMMA SettledSeen ==
  ASSUME RecordInv, NEW s \in Steps, Linked(s),
         \A p \in Vouchers(s) : UpToDate(p) /\ p \notin taint
  PROVE  \A r \in Reads(s) : Vis(Seen(s, r)) = Vis(Content(r))
<1> SUFFICES ASSUME NEW r \in Reads(s), r \in Outputs \ Watched(s)
             PROVE  Vis(Rebuild(r)) = Vis(made[r])
  BY Disjoint DEF Seen, Content
<1>1. PICK p \in Vouchers(s) : p \in Steps /\ r \in Writes[p] /\ Direct(p) /\ Vouchers(p) = {}
  BY Voucher
<1>2. Faithful(p)
  BY <1>1 DEF RecordInv, Vouched, Linked
<1>3. Needs[r] \subseteq Reads(p)
  BY <1>1, GraphFacts
<1>4. \A f \in Needs[r] : Seen(p, f) = Content(f)
  BY <1>1, <1>3 DEF Direct, Seen
<1>5. Vis(made[r]) = UNION {Vis(Content(f)) : f \in Needs[r]}
  BY <1>1, <1>2, <1>4 DEF Faithful
<1> QED
  BY <1>5, VisRebuild

\* A direct step sees everything it reads.
LEMMA DirectSeen ==
  ASSUME NEW s \in Steps, Direct(s)
  PROVE  \A r \in Reads(s) : Seen(s, r) = Content(r)
  BY DEF Direct, Seen

\* An action that writes `new` whole and tears `scrap` keeps s faithful, if it
\* touches nothing s or its vouchers watch.
LEMMA ProduceFaithful ==
  ASSUME TypeOK, RecordInv, phase = "act",
         NEW new \in SUBSET Writes[Cur], NEW scrap \in SUBSET Writes[Cur],
         Produce(new, scrap), UNCHANGED ver,
         NEW s \in Steps, Linked(s),
         (new \cup scrap) \cap Watched(s) = {},
         \A p \in Vouchers(s) : UpToDate(p) /\ (new \cup scrap) \cap Watched(p) = {},
         Faithful(s) \/ new = Writes[s],
         \A w \in new \cap Writes[s] : from[w] = Needs[w],
         (scrap \ new) \cap Writes[s] = {},
         s = Cur => Vouchers(s) \cap taint = {}
  PROVE  Faithful(s)'
<1>1. Cur \in Steps /\ Writes[Cur] \subseteq Outputs /\ Writes[s] \subseteq Outputs
  BY CurStep, GraphFacts
<1>2. \A f \in Base(s) : Content(f)' = Content(f)
  <2> SUFFICES ASSUME NEW f \in Base(s), f \notin Sources
               PROVE  made'[f] = made[f]
    BY DEF Content
  <2>1. f \in Outputs
    <3>1. \A q \in Steps : Reads(q) \subseteq Sources \cup Outputs
      BY GraphFacts
    <3> QED
      BY <3>1 DEF Base, DeepReads, Vouchers
  <2>2. f \notin new \cup scrap
    BY DEF Base
  <2> QED
    BY <2>1, <2>2 DEF Produce
<1>3. \A r \in Reads(s) : Vis(Seen(s, r))' = Vis(Seen(s, r))
  <2>1. \A f \in Base(s) : Vis(Content(f))' = Vis(Content(f))
    BY <1>2 DEF Vis, Tracked, Reads, Watched
  <2> QED
    BY <2>1, SeenKept
<1> SUFFICES ASSUME NEW w \in Writes[s]
             PROVE  Vis(made[w])' = UNION {Vis(Seen(s, r))' : r \in Needs[w]}
  BY DEF Faithful
<1>4. Needs[w] \subseteq Reads(s)
  BY GraphFacts
<1>5. CASE w \in new
  <2>1. made'[w] = Rebuild(w)
    BY <1>1, <1>5 DEF Produce, Made, Rebuild
  <2>2. Vis(made[w])' = Vis(Rebuild(w))
    BY <2>1 DEF Vis, Tracked, Reads, Watched
  <2>3. \A r \in Reads(s) : Vis(Seen(s, r)) = Vis(Content(r))
    <3>1. CASE Direct(s)
      BY <3>1, DirectSeen
    <3>2. CASE s = Cur
      BY <3>2, SettledSeen
    <3>3. Direct(s) \/ s = Cur
      BY <1>1, <1>5 DEF Linked
    <3> QED
      BY <3>1, <3>2, <3>3
  <2> QED
    BY <1>1, <1>3, <1>4, <2>2, <2>3, VisRebuild
<1>6. CASE w \notin new
  <2>1. made'[w] = made[w]
    BY <1>1, <1>6 DEF Produce
  <2>2. Vis(made[w])' = Vis(made[w])
    BY <2>1 DEF Vis, Tracked, Reads, Watched
  <2>3. Vis(made[w]) = UNION {Vis(Seen(s, r)) : r \in Needs[w]}
    BY <1>6 DEF Faithful
  <2> QED
    BY <1>3, <1>4, <2>2, <2>3
<1> QED
  BY <1>5, <1>6

\* Frozen for a step and its vouchers at once.
LEMMA FrozenVouched ==
  ASSUME TypeOK, NEW s \in Steps, NEW X \in SUBSET Files,
         stamp' = [f \in Files |-> IF f \in X THEN clock + 1 ELSE stamp[f]],
         UNCHANGED record, recorded' \subseteq recorded
  PROVE  /\ UpToDate(s)' => UpToDate(s) /\ X \cap Watched(s) = {}
         /\ (\A p \in Vouchers(s) : UpToDate(p)') =>
              \A p \in Vouchers(s) : UpToDate(p) /\ X \cap Watched(p) = {}
<1>1. ASSUME NEW p \in Steps, UpToDate(p)'
      PROVE  UpToDate(p) /\ X \cap Watched(p) = {}
  BY <1>1, Frozen
<1>2. Vouchers(s) \subseteq Steps
  BY DEF Vouchers
<1> QED
  BY <1>1, <1>2

\* The actions that leave files, records and taint alone keep the records.
LEMMA StoreKept ==
  ASSUME RecordInv, UNCHANGED fileVars, UNCHANGED taint
  PROVE  RecordInv'
<1> SUFFICES ASSUME NEW s \in Steps, Vouched(s)', UpToDate(s)'
             PROVE  Faithful(s)'
  BY DEF RecordInv
<1>1. \A p \in Steps : UpToDate(p)' = UpToDate(p)
  BY DEF UpToDate, Fingerprint, fileVars, Watched
<1>2. \A f : Content(f)' = Content(f)
  BY DEF Content, fileVars
<1>3. Linked(s) /\ Faithful(s)
  <2>1. Linked(s)' = Linked(s)
    BY DEF Linked, Direct, Sole, Reads, Watched, Vouchers
  <2>2. Vouched(s)
    BY <1>1, <2>1 DEF Vouched, Vouchers
  <2> QED
    BY <1>1, <2>2 DEF RecordInv, Vouched
<1>4. \A f \in Base(s) : Vis(Content(f))' = Vis(Content(f))
  BY <1>2 DEF Vis, Tracked, Reads, Watched
<1> QED
  BY <1>3, <1>4, FaithfulKept DEF fileVars

LEMMA VouchedNext ==
  ASSUME NEW s, Vouched(s)'
  PROVE  Linked(s) /\ s \notin taint' /\ \A p \in Vouchers(s) : UpToDate(p)'
BY DEF Vouched, Linked, Direct, Sole, Reads, Watched, Vouchers

LEMMA ActRecords ==
  ASSUME TypeOK, RecordInv, Act
  PROVE  RecordInv' /\ MarkInv'
<1> DEFINE W == Writes[Cur]
<1>1. Cur \in Steps /\ W \in SUBSET Files /\ W \cap Watched(Cur) = {}
  BY CurStep, GraphFacts DEF Act, Files, Watched
<1>2. /\ phase = "act" /\ Produce(W, {}) /\ UNCHANGED <<ver, record, recorded>>
      /\ stamp' = [f \in Files |-> IF f \in W THEN clock + 1 ELSE stamp[f]]
      /\ taint' = (taint \ {Cur}) \cup Misled \cup Unaware(Astray)
  BY DEF Act, Produce
<1>3. phase' = "mark" => Cur' = Cur /\ from = Needs
  BY DEF Act, Advance, Cur, TypeOK, StoreOK
<1>4. ASSUME NEW s \in Steps, Linked(s), s \notin taint',
             \A p \in Vouchers(s) : UpToDate(p)',
             (s = Cur /\ from = Needs) \/ UpToDate(s)'
      PROVE  Faithful(s)'
  <2>1. /\ \A p \in Vouchers(s) : UpToDate(p) /\ W \cap Watched(p) = {}
        /\ UpToDate(s)' => UpToDate(s) /\ W \cap Watched(s) = {}
    BY <1>1, <1>2, <1>4, FrozenVouched
  <2>2. W \cap Watched(s) = {}
    BY <1>1, <1>4, <2>1
  <2>3. s = Cur => Vouchers(s) \cap taint = {}
    BY <1>2, <1>4 DEF Misled
  <2>4. s # Cur => Faithful(s)
    <3>1. s # Cur => s \notin taint
      BY <1>2, <1>4
    <3> QED
      BY <1>4, <2>1, <3>1 DEF RecordInv, Vouched
  <2>5. Faithful(s) \/ W = Writes[s]
    BY <2>4
  <2>6. \A w \in W \cap Writes[s] : from[w] = Needs[w]
    <3>1. CASE from = Needs
      BY <3>1
    <3>2. CASE UpToDate(s)'
      BY <1>2, <1>4, <2>1, <3>2 DEF Unaware, Astray
    <3> QED
      BY <1>4, <3>1, <3>2
  <2> QED
    BY <1>2, <1>4, <2>1, <2>2, <2>3, <2>5, <2>6, ProduceFaithful
<1>5. RecordInv'
  BY <1>4, VouchedNext DEF RecordInv
<1>6. ASSUME phase' = "mark", Vouched(Cur)' PROVE Faithful(Cur)'
  <2>1. Cur' = Cur
    BY <1>3, <1>6
  <2>2. Linked(Cur) /\ Cur \notin taint' /\ \A p \in Vouchers(Cur) : UpToDate(p)'
    BY <1>6, <2>1 DEF Vouched, Linked, Direct, Sole, Reads, Watched, Vouchers
  <2>3. ASSUME NEW s \in Steps, s = Cur PROVE Faithful(s)'
    BY <1>3, <1>4, <1>6, <2>2, <2>3
  <2> QED
    BY <1>1, <2>1, <2>3 DEF Faithful
<1> QED
  BY <1>5, <1>6 DEF MarkInv

LEMMA StopRecords ==
  ASSUME TypeOK, RecordInv, phase = "act",
         NEW new \in SUBSET Writes[Cur], NEW scrap \in SUBSET Writes[Cur],
         StopInAct(new, scrap)
  PROVE  RecordInv'
<1> DEFINE W == new \cup scrap
<1>1. Cur \in Steps /\ W \in SUBSET Files
  BY CurStep, GraphFacts DEF Files
<1>2. /\ Produce(new, scrap) /\ UNCHANGED <<ver, record, recorded>>
      /\ stamp' = [f \in Files |-> IF f \in W THEN clock + 1 ELSE stamp[f]]
      /\ new \cap scrap = {}
      /\ taint' = taint \cup Misled \cup Unaware(scrap \cup (new \cap Astray))
  BY DEF StopInAct, Produce
<1> SUFFICES ASSUME NEW s \in Steps, Vouched(s)', UpToDate(s)'
             PROVE  Faithful(s)'
  BY DEF RecordInv
<1>3. Linked(s) /\ s \notin taint' /\ \A p \in Vouchers(s) : UpToDate(p)'
  BY VouchedNext
<1>4. /\ UpToDate(s) /\ W \cap Watched(s) = {}
      /\ \A p \in Vouchers(s) : UpToDate(p) /\ W \cap Watched(p) = {}
  BY <1>1, <1>2, <1>3, FrozenVouched
<1>5. Faithful(s)
  BY <1>2, <1>3, <1>4 DEF RecordInv, Vouched
<1>6. scrap \cap Writes[s] = {} /\ (s = Cur => Vouchers(s) \cap taint = {})
  BY <1>2, <1>3, <1>4 DEF Unaware, Misled
<1>7. \A w \in new \cap Writes[s] : from[w] = Needs[w]
  BY <1>2, <1>3, <1>4 DEF Unaware, Astray
<1> QED
  BY <1>2, <1>3, <1>4, <1>5, <1>6, <1>7, ProduceFaithful

LEMMA MarkRecords ==
  ASSUME TypeOK, RecordInv, MarkInv, Mark
  PROVE  RecordInv'
<1> DEFINE X == {Name[Cur]}
<1>1. Cur \in Steps /\ X \in SUBSET Files /\ Name[Cur] \in Names
  BY CurStep, GraphFacts DEF Mark, Files
<1>2. stamp' = [f \in Files |-> IF f \in X THEN clock + 1 ELSE stamp[f]]
  BY <1>1 DEF Mark, TypeOK, StoreOK
<1> SUFFICES ASSUME NEW s \in Steps, Vouched(s)', UpToDate(s)'
             PROVE  Faithful(s)'
  BY DEF RecordInv
<1>3. Linked(s) /\ s \notin taint' /\ \A p \in Vouchers(s) : UpToDate(p)'
  BY VouchedNext
<1>4. \A n \in Names \ X : record'[n] = record[n] /\ (n \in recorded' => n \in recorded)
  BY <1>1 DEF Mark, TypeOK, StoreOK
<1>5. \A p \in Steps : Name[p] # Name[Cur] /\ UpToDate(p)' => UpToDate(p) /\ X \cap Watched(p) = {}
  BY <1>1, <1>2, <1>4, Frozen, GraphFacts
<1>6. s # Cur => Name[s] # Name[Cur]
  BY <1>1, <1>3 DEF Linked, Direct, Sole
<1>7. \A p \in Vouchers(s) : p \in Steps /\ Name[p] # Name[Cur]
  <2>1. s = Cur => \A p \in Vouchers(s) : Name[p] # Name[Cur]
    BY GraphFacts DEF Vouchers
  <2>2. s # Cur => X \cap Watched(s) = {}
    BY <1>5, <1>6
  <2> QED
    BY <2>1, <2>2, VoucherWatched
<1>8. \A p \in Vouchers(s) : UpToDate(p)
  BY <1>3, <1>5, <1>7
<1>9. s \notin taint /\ phase = "mark" /\ UNCHANGED <<made, ver>>
  BY <1>3 DEF Mark
<1>10. Faithful(s)
  <2>1. CASE s = Cur
    BY <1>3, <1>8, <1>9, <2>1 DEF MarkInv, Vouched
  <2>2. CASE s # Cur
    BY <1>3, <1>5, <1>6, <1>8, <1>9, <2>2 DEF RecordInv, Vouched
  <2> QED
    BY <2>1, <2>2
<1>11. \A f \in Base(s) : Vis(Content(f))' = Vis(Content(f))
  BY <1>9 DEF Content, Vis, Tracked, Reads, Watched
<1> QED
  BY <1>3, <1>9, <1>10, <1>11, FaithfulKept

LEMMA KillRecords ==
  ASSUME TypeOK, RecordInv, NEW torn \in BOOLEAN, Kill(torn)
  PROVE  RecordInv'
<1>1. Cur \in Steps /\ {Name[Cur]} \in SUBSET Files
  BY CurStep, GraphFacts DEF Kill, Files
<1> DEFINE X == IF torn THEN {Name[Cur]} ELSE {}
<1>2. /\ X \in SUBSET Files
      /\ stamp' = [f \in Files |-> IF f \in X THEN clock + 1 ELSE stamp[f]]
      /\ recorded' \subseteq recorded
  BY <1>1 DEF Kill, TypeOK, StoreOK
<1> SUFFICES ASSUME NEW s \in Steps, Vouched(s)', UpToDate(s)'
             PROVE  Faithful(s)'
  BY DEF RecordInv
<1>3. Linked(s) /\ s \notin taint' /\ \A p \in Vouchers(s) : UpToDate(p)'
  BY VouchedNext
<1>4. UNCHANGED <<ver, made, record, taint>>
  BY DEF Kill
<1>5. UpToDate(s) /\ \A p \in Vouchers(s) : UpToDate(p)
  BY <1>2, <1>3, <1>4, FrozenVouched
<1>6. Faithful(s)
  BY <1>3, <1>4, <1>5 DEF RecordInv, Vouched
<1>7. \A f \in Base(s) : Vis(Content(f))' = Vis(Content(f))
  BY <1>4 DEF Content, Vis, Tracked, Reads, Watched
<1> QED
  BY <1>3, <1>4, <1>6, <1>7, FaithfulKept

\* An edit is invisible to a step that does not watch it, and after an edit a
\* step that watches it is not up to date.
LEMMA EditRecords ==
  ASSUME TypeOK, RecordInv, MarkInv, NEW X \in Editable, Edit(X)
  PROVE  RecordInv' /\ MarkInv'
<1>1. /\ X \in SUBSET Files
      /\ stamp' = [f \in Files |-> IF f \in X THEN clock + 1 ELSE stamp[f]]
      /\ ver' = [x \in Sources |-> IF x \in X THEN ver[x] + 1 ELSE ver[x]]
      /\ UNCHANGED <<made, record, recorded, cmd, pos, phase>>
      /\ taint \subseteq taint'
  BY GraphType DEF Edit, Files, procVars
<1>2. ASSUME NEW s \in Steps, Linked(s), Faithful(s),
             X \cap Watched(s) = {} \/ X \cap Reads(s) = {},
             \A p \in Vouchers(s) : X \cap Watched(p) = {}
      PROVE  Faithful(s)'
  <2>1. ASSUME NEW f \in Base(s) PROVE Vis(Content(f))' = Vis(Content(f))
    <3>1. CASE f \in X
      <4>1. f \in Sources /\ f \notin Outputs
        BY <3>1, GraphType, Disjoint
      <4>2. f \notin Tracked
        BY <1>2, <3>1, <4>1 DEF Base, DeepReads, Vouchers, Tracked
      <4> QED
        BY <4>1, <4>2 DEF Content, Vis, Tracked, Reads, Watched
    <3>2. CASE f \notin X
      <4>1. Content(f)' = Content(f)
        BY <1>1, <3>2 DEF Content, TypeOK, StoreOK
      <4> QED
        BY <4>1 DEF Vis, Tracked, Reads, Watched
    <3> QED
      BY <3>1, <3>2
  <2> QED
    BY <1>1, <1>2, <2>1, FaithfulKept
<1>3. RecordInv'
  <2> SUFFICES ASSUME NEW s \in Steps, Vouched(s)', UpToDate(s)'
               PROVE  Faithful(s)'
    BY DEF RecordInv
  <2>1. Linked(s) /\ s \notin taint' /\ \A p \in Vouchers(s) : UpToDate(p)'
    BY VouchedNext
  <2>2. /\ UpToDate(s) /\ X \cap Watched(s) = {}
        /\ \A p \in Vouchers(s) : UpToDate(p) /\ X \cap Watched(p) = {}
    BY <1>1, <2>1, FrozenVouched
  <2>3. Faithful(s)
    BY <1>1, <2>1, <2>2 DEF RecordInv, Vouched
  <2> QED
    BY <1>2, <2>1, <2>2, <2>3
<1>4. ASSUME phase' = "mark", Vouched(Cur)' PROVE Faithful(Cur)'
  <2>1. Cur \in Steps /\ Cur' = Cur
    BY <1>1, <1>4, CurStep DEF Cur
  <2>2. Linked(Cur) /\ Cur \notin taint' /\ \A p \in Vouchers(Cur) : UpToDate(p)'
    BY <1>4, <2>1 DEF Vouched, Linked, Direct, Sole, Reads, Watched, Vouchers
  <2>3. X \cap Reads(Cur) = {} /\ Cur \notin taint
    BY <1>1, <1>4, <2>2 DEF Edit
  <2>4. \A p \in Vouchers(Cur) : UpToDate(p) /\ X \cap Watched(p) = {}
    BY <1>1, <2>1, <2>2, FrozenVouched
  <2>5. Faithful(Cur)
    BY <1>1, <1>4, <2>2, <2>3, <2>4 DEF MarkInv, Vouched
  <2>6. ASSUME NEW s \in Steps, s = Cur PROVE Faithful(s)'
    BY <1>2, <2>2, <2>3, <2>4, <2>5, <2>6
  <2> QED
    BY <2>1, <2>6 DEF Faithful
<1> QED
  BY <1>3, <1>4 DEF MarkInv

\* An edit with an unchanged stamp taints every step that could have seen it.
LEMMA QuietRecords ==
  ASSUME TypeOK, RecordInv, MarkInv, NEW X \in Editable, QuietEdit(X)
  PROVE  RecordInv' /\ MarkInv'
<1>1. /\ ver' = [x \in Sources |-> IF x \in X THEN ver[x] + 1 ELSE ver[x]]
      /\ UNCHANGED <<stamp, made, record, recorded, cmd, pos, phase>>
      /\ taint' = taint \cup {s \in Steps : X \cap DeepReads(s) # {}}
  BY DEF QuietEdit, procVars
<1>2. \A p \in Steps : UpToDate(p)' = UpToDate(p)
  BY <1>1 DEF UpToDate, Fingerprint, Watched
<1>3. ASSUME NEW s \in Steps, Linked(s), Faithful(s), s \notin taint' PROVE Faithful(s)'
  <2>1. \A f \in Base(s) : Content(f)' = Content(f)
    BY <1>1, <1>3 DEF Base, Content, TypeOK, StoreOK
  <2>2. \A f \in Base(s) : Vis(Content(f))' = Vis(Content(f))
    BY <2>1 DEF Vis, Tracked, Reads, Watched
  <2> QED
    BY <1>1, <1>3, <2>2, FaithfulKept
<1>4. RecordInv'
  <2> SUFFICES ASSUME NEW s \in Steps, Vouched(s)', UpToDate(s)'
               PROVE  Faithful(s)'
    BY DEF RecordInv
  <2>1. Linked(s) /\ s \notin taint' /\ \A p \in Vouchers(s) : UpToDate(p)'
    BY VouchedNext
  <2>2. UpToDate(s) /\ (\A p \in Vouchers(s) : UpToDate(p)) /\ s \notin taint
    BY <1>1, <1>2, <2>1 DEF Vouchers
  <2>3. Faithful(s)
    BY <2>1, <2>2 DEF RecordInv, Vouched
  <2> QED
    BY <1>3, <2>1, <2>3
<1>5. ASSUME phase' = "mark", Vouched(Cur)' PROVE Faithful(Cur)'
  <2>1. Cur \in Steps /\ Cur' = Cur
    BY <1>1, <1>5, CurStep DEF Cur
  <2>2. Linked(Cur) /\ Cur \notin taint' /\ \A p \in Vouchers(Cur) : UpToDate(p)'
    BY <1>5, <2>1 DEF Vouched, Linked, Direct, Sole, Reads, Watched, Vouchers
  <2>3. Faithful(Cur)
    BY <1>1, <1>2, <1>5, <2>2 DEF MarkInv, Vouched, Vouchers
  <2>4. ASSUME NEW s \in Steps, s = Cur PROVE Faithful(s)'
    BY <1>3, <2>2, <2>3, <2>4
  <2> QED
    BY <2>1, <2>4 DEF Faithful
<1> QED
  BY <1>4, <1>5 DEF MarkInv

\* An interrupted clean taints every step one of whose files is gone.
LEMMA CutRecords ==
  ASSUME TypeOK, RecordInv, NEW gone \in Cuts, CleanCut(gone)
  PROVE  RecordInv'
<1> SUFFICES ASSUME NEW s \in Steps, Vouched(s)', UpToDate(s)'
             PROVE  Faithful(s)'
  BY DEF RecordInv
<1>1. Linked(s) /\ s \notin taint' /\ \A p \in Vouchers(s) : UpToDate(p)'
  BY VouchedNext
<1>2. /\ s \notin taint
      /\ gone \cap (Writes[s] \cup Listed[s]) = {}
      /\ \A p \in Vouchers(s) : gone \cap Listed[p] = {}
  BY <1>1 DEF CleanCut
<1>3. /\ stamp' = [f \in Files |-> IF f \in gone THEN 0 ELSE stamp[f]]
      /\ made' = [w \in Outputs |-> IF w \in gone THEN {} ELSE made[w]]
      /\ recorded' = recorded \ gone
      /\ UNCHANGED <<ver, record>>
  BY DEF CleanCut, Remove
<1>4. ASSUME NEW p \in Steps, gone \cap Listed[p] = {}, UpToDate(p)' PROVE UpToDate(p)
  <2>1. \A f \in Watched(p) : stamp'[f] = stamp[f]
    BY <1>3, <1>4, GraphFacts DEF Watched
  <2>2. Fingerprint(p)' = Fingerprint(p)
    BY <2>1 DEF Fingerprint, Watched
  <2> QED
    BY <1>3, <1>4, <2>2 DEF UpToDate
<1>5. UpToDate(s) /\ \A p \in Vouchers(s) : UpToDate(p)
  BY <1>1, <1>2, <1>4 DEF Vouchers
<1>6. Faithful(s)
  BY <1>1, <1>2, <1>5 DEF RecordInv, Vouched
<1>7. ASSUME NEW f \in Base(s) PROVE Content(f)' = Content(f)
  <2>1. CASE f \in Sources
    BY <1>3, <2>1 DEF Content
  <2>2. CASE f \notin Sources
    <3>1. f \notin gone /\ f \in Outputs
      BY <1>2, <2>2, GraphFacts DEF Base, DeepReads, Watched, Vouchers
    <3> QED
      BY <1>3, <2>2, <3>1 DEF Content
  <2> QED
    BY <2>1, <2>2
<1>8. \A f \in Base(s) : Vis(Content(f))' = Vis(Content(f))
  BY <1>7 DEF Vis, Tracked, Reads, Watched
<1>9. \A w \in Writes[s] : made'[w] = made[w]
  BY <1>2, <1>3, GraphFacts
<1> QED
  BY <1>1, <1>6, <1>8, <1>9, FaithfulKept

LEMMA CleanRecords ==
  ASSUME TypeOK, NEW full \in BOOLEAN, Clean(full)
  PROVE  RecordInv'
<1>1. recorded' = {}
  BY DEF Clean, Remove, TypeOK, StoreOK
<1> QED
  BY <1>1 DEF RecordInv, UpToDate

LEMMA RecordsNext ==
  TypeOK /\ RecordInv /\ MarkInv /\ [Next]_vars => RecordInv' /\ MarkInv'
<1> SUFFICES ASSUME TypeOK, RecordInv, MarkInv, [Next]_vars
             PROVE  RecordInv' /\ MarkInv'
  OBVIOUS
<1>1. ASSUME NEW c \in Commands, NEW f \in Forcible, Invoke(c, f)
      PROVE  RecordInv' /\ MarkInv'
  BY <1>1, StoreKept DEF Invoke, MarkInv
<1>2. ASSUME NEW s \in Steps, NEW t \in Leaves[s], InvokeLeaf(s, t) PROVE RecordInv' /\ MarkInv'
  BY <1>2, StoreKept DEF InvokeLeaf, MarkInv
<1>3. CASE Skip
  BY <1>3, StoreKept DEF Skip, Advance, MarkInv
<1>4. CASE Run
  BY <1>4, StoreKept DEF Run, MarkInv
<1>5. CASE Act
  BY <1>5, ActRecords
<1>6. CASE Missing \/ Break
  <2>1. phase = "act" /\ \E new, scrap \in SUBSET Writes[Cur] : StopInAct(new, scrap)
    BY <1>6 DEF Missing, Break
  <2>2. phase' = "idle"
    BY <2>1 DEF StopInAct
  <2> QED
    BY <2>1, <2>2, StopRecords DEF MarkInv
<1>7. CASE Mark
  <2>1. phase' # "mark"
    BY <1>7 DEF Mark, Advance
  <2> QED
    BY <1>7, <2>1, MarkRecords DEF MarkInv
<1>8. ASSUME NEW torn \in BOOLEAN, Kill(torn) PROVE RecordInv' /\ MarkInv'
  <2>1. phase' # "mark"
    BY <1>8 DEF Kill
  <2> QED
    BY <1>8, <2>1, KillRecords DEF MarkInv
<1>9. ASSUME NEW X \in Editable, Edit(X) \/ QuietEdit(X) PROVE RecordInv' /\ MarkInv'
  BY <1>9, EditRecords, QuietRecords
<1>10. ASSUME NEW full \in BOOLEAN, Clean(full) PROVE RecordInv' /\ MarkInv'
  <2>1. phase' # "mark"
    BY <1>10 DEF Clean, Remove, procVars
  <2> QED
    BY <1>10, <2>1, CleanRecords DEF MarkInv
<1>11. ASSUME NEW gone \in Cuts, CleanCut(gone) PROVE RecordInv' /\ MarkInv'
  <2>1. phase' # "mark"
    BY <1>11 DEF CleanCut, Remove, procVars
  <2> QED
    BY <1>11, <2>1, CutRecords DEF MarkInv
<1>12. CASE UNCHANGED vars
  <2>1. RecordInv'
    BY <1>12, StoreKept DEF vars
  <2>2. MarkInv'
    BY <1>12 DEF vars, fileVars, procVars, MarkInv, Vouched, Faithful, Cur, UpToDate,
                 Fingerprint, Seen, Rebuild, Content, Vis, Tracked, Reads, Watched,
                 Linked, Direct, Sole, Vouchers
  <2> QED
    BY <2>1, <2>2
<1> QED
  BY <1>1, <1>2, <1>3, <1>4, <1>5, <1>6, <1>7, <1>8, <1>9, <1>10, <1>11, <1>12
  DEF Next, Forge

-----------------------------------------------------------------------------
(* The finished part of the running command.                               *)

\* A step stays up to date while nothing it lists and not its record changes.
LEMMA UpToDateKept ==
  ASSUME NEW s \in Steps, UpToDate(s), Name[s] \in recorded',
         record'[Name[s]] = record[Name[s]],
         \A f \in Watched(s) : stamp'[f] = stamp[f]
  PROVE  UpToDate(s)'
<1>1. Fingerprint(s)' = Fingerprint(s)
  BY DEF Fingerprint, Watched
<1> QED
  BY <1>1 DEF UpToDate

LEMMA DoneNext == TypeOK /\ DoneInv /\ [Next]_vars => DoneInv'
<1> SUFFICES ASSUME TypeOK, DoneInv, [Next]_vars, calm', ~leaf', NEW i \in 1..(pos' - 1)
             PROVE  UpToDate(cmd[i])'
  BY DEF DoneInv
<1>1. pos \in Nat /\ pos' \in Nat
  BY TypeNext DEF TypeOK, StoreOK
<1>2. CASE UNCHANGED <<stamp, recorded, record, cmd, pos, calm, leaf>>
  <2>1. UpToDate(cmd[i])
    BY <1>2 DEF DoneInv
  <2> QED
    BY <1>2, <2>1 DEF UpToDate, Fingerprint, Watched
<1>3. CASE Skip
  <2>1. UpToDate(cmd[i])
    <3>1. i = pos \/ i \in 1..(pos - 1)
      BY <1>1, <1>3 DEF Skip, Advance
    <3> QED
      BY <1>3, <3>1 DEF DoneInv, Skip, Cur
  <2> QED
    BY <1>3, <2>1 DEF Skip, fileVars, UpToDate, Fingerprint, Watched
<1>4. ASSUME NEW new \in SUBSET Writes[Cur], NEW scrap \in SUBSET Writes[Cur],
             phase = "act", Produce(new, scrap), pos' = pos,
             UNCHANGED <<recorded, record, cmd, calm, leaf>>
      PROVE  UpToDate(cmd[i])'
  <2>1. /\ cmd[i] \in Steps
        /\ Writes[Cur] \cap Listed[cmd[i]] = {}
        /\ UpToDate(cmd[i])
    BY <1>4, EarlierBlind DEF DoneInv
  <2>2. \A f \in Watched(cmd[i]) : stamp'[f] = stamp[f]
    BY <1>4, <2>1, GraphFacts DEF Produce, Watched
  <2>3. Name[cmd[i]] \in recorded' /\ record'[Name[cmd[i]]] = record[Name[cmd[i]]]
    BY <1>4, <2>1 DEF UpToDate
  <2>4. ASSUME NEW s \in Steps, s = cmd[i] PROVE UpToDate(s)'
    BY <2>1, <2>2, <2>3, <2>4, UpToDateKept
  <2> QED
    BY <1>4, <2>1, <2>4 DEF UpToDate, Fingerprint, Watched
<1>5. CASE Act
  <2>1. ~leaf /\ {} \in SUBSET Writes[Cur] /\ Writes[Cur] \in SUBSET Writes[Cur]
    BY <1>5 DEF Act
  <2> QED
    BY <1>4, <1>5, <2>1 DEF Act
<1>6. CASE Missing \/ Break
  <2>1. phase = "act" /\ \E new, scrap \in SUBSET Writes[Cur] : StopInAct(new, scrap)
    BY <1>6 DEF Missing, Break
  <2> QED
    BY <1>4, <2>1 DEF StopInAct
<1>7. ASSUME phase # "idle", NEW s \in Steps, i < pos, s = cmd[i], UNCHANGED cmd, calm, ~leaf,
             \A n \in Names \ {Name[Cur]} :
               record'[n] = record[n] /\ (n \in recorded => n \in recorded'),
             \A f \in Files \ {Name[Cur]} : stamp'[f] = stamp[f]
      PROVE  UpToDate(s)'
  <2>1. i \in 1..(pos - 1)
    BY <1>1, <1>7
  <2>2. /\ Name[s] # Name[Cur]
        /\ Name[Cur] \notin Listed[s]
        /\ UpToDate(s)
    BY <1>7, <2>1, EarlierBlind DEF DoneInv
  <2>3. \A f \in Watched(s) : stamp'[f] = stamp[f]
    BY <1>7, <2>2, GraphFacts DEF Watched
  <2>4. Name[s] \in recorded' /\ record'[Name[s]] = record[Name[s]]
    BY <1>7, <2>2, GraphFacts DEF UpToDate
  <2> QED
    BY <2>2, <2>3, <2>4, UpToDateKept
<1>8. CASE Mark
  <2>1. phase # "idle" /\ cmd' = cmd /\ Cur \in Steps /\ pos' = pos + 1 /\ calm /\ ~leaf
        /\ pos \in 1..Len(cmd) /\ Len(cmd) \in Nat
    BY <1>8, CurStep DEF Mark, Advance
  <2>2. CASE i = pos
    <3>1. \A f \in Watched(Cur) : stamp'[f] = stamp[f]
      BY <1>8, <2>1, GraphFacts DEF Mark, Watched, TypeOK, StoreOK
    <3>2. Fingerprint(Cur) = {<<f, stamp'[f]>> : f \in {g \in Watched(Cur) : stamp'[g] # 0}}
      BY <3>1 DEF Fingerprint
    <3>3. Name[Cur] \in recorded' /\ record'[Name[Cur]] = Fingerprint(Cur)
      BY <1>8, <2>1, GraphFacts DEF Mark, TypeOK, StoreOK
    <3>4. cmd'[i] = Cur
      BY <2>1, <2>2 DEF Cur
    <3> QED
      BY <3>2, <3>3, <3>4 DEF UpToDate, Fingerprint, Watched
  <2>3. CASE i # pos
    <3>1. i < pos /\ cmd[i] \in Steps
      <4>1. cmd \in Seq(Steps)
        BY DEF TypeOK, StoreOK
      <4> QED
        BY <1>1, <2>1, <2>3, <4>1
    <3>2. /\ \A n \in Names \ {Name[Cur]} :
               record'[n] = record[n] /\ (n \in recorded => n \in recorded')
          /\ \A f \in Files \ {Name[Cur]} : stamp'[f] = stamp[f]
      BY <1>8 DEF Mark, TypeOK, StoreOK
    <3>3. ASSUME NEW s \in Steps, s = cmd[i] PROVE UpToDate(s)'
      BY <1>7, <2>1, <3>1, <3>2, <3>3
    <3> QED
      BY <2>1, <3>1, <3>3 DEF UpToDate, Fingerprint, Watched
  <2> QED
    BY <2>2, <2>3
<1>9. ASSUME NEW torn \in BOOLEAN, Kill(torn) PROVE UpToDate(cmd[i])'
  <2>1. /\ phase # "idle" /\ UNCHANGED <<cmd, pos>> /\ calm /\ ~leaf
        /\ pos \in 1..Len(cmd) /\ Len(cmd) \in Nat /\ cmd \in Seq(Steps)
    BY <1>9, CurStep DEF Kill, TypeOK, StoreOK
  <2>2. i < pos /\ cmd[i] \in Steps
    BY <1>1, <2>1
  <2>3. /\ \A n \in Names \ {Name[Cur]} :
             record'[n] = record[n] /\ (n \in recorded => n \in recorded')
        /\ \A f \in Files \ {Name[Cur]} : stamp'[f] = stamp[f]
    BY <1>9 DEF Kill, TypeOK, StoreOK
  <2>4. ASSUME NEW s \in Steps, s = cmd[i] PROVE UpToDate(s)'
    BY <1>7, <2>1, <2>2, <2>3, <2>4
  <2> QED
    BY <2>1, <2>2, <2>4 DEF UpToDate, Fingerprint, Watched
<1>10. ASSUME NEW c \in Commands, NEW f \in Forcible, Invoke(c, f) PROVE FALSE
  BY <1>10 DEF Invoke
<1>11. ASSUME NEW s \in Steps, NEW t \in Leaves[s], InvokeLeaf(s, t) PROVE FALSE
  BY <1>11 DEF InvokeLeaf
<1>12. ASSUME NEW X \in Editable, Edit(X) \/ QuietEdit(X) PROVE FALSE
  BY <1>12 DEF Edit, QuietEdit
<1>13. ASSUME NEW full \in BOOLEAN, Clean(full) PROVE FALSE
  BY <1>13 DEF Clean, Remove
<1>14. ASSUME NEW gone \in Cuts, CleanCut(gone) PROVE FALSE
  BY <1>14 DEF CleanCut, Remove
<1>15. CASE Run \/ UNCHANGED vars
  BY <1>2, <1>15 DEF Run, vars, fileVars, procVars
<1> QED
  BY <1>3, <1>5, <1>6, <1>8, <1>9, <1>10, <1>11, <1>12, <1>13, <1>14, <1>15
  DEF Next, Forge

\* A forced command runs every action, so whatever it has passed is rebuilt.
LEMMA ForceNext == TypeOK /\ ForceInv /\ [Next]_vars => ForceInv'
<1> DEFINE done == IF phase = "mark" THEN pos ELSE pos - 1
<1> DEFINE doneNext == IF phase' = "mark" THEN pos' ELSE pos' - 1
<1> SUFFICES ASSUME TypeOK, ForceInv, [Next]_vars, calm', force', phase' # "idle" \/ Completed',
                    NEW i \in 1..doneNext, NEW w \in Writes[cmd'[i]]
             PROVE  made'[w] = Rebuild(w)'
  BY DEF ForceInv
<1>1. pos \in Nat /\ pos' \in Nat /\ Len(cmd) \in Nat
  BY TypeNext DEF TypeOK, StoreOK
<1>2. ASSUME UNCHANGED <<made, ver, cmd, calm, force>>, i \in 1..done,
             phase # "idle" \/ Completed
      PROVE  made'[w] = Rebuild(w)'
  <2>1. made[w] = Rebuild(w)
    BY <1>2 DEF ForceInv
  <2> QED
    BY <1>2, <2>1 DEF Rebuild, Content
<1>3. CASE Skip
  BY <1>3 DEF Skip
<1>4. CASE Run
  BY <1>2, <1>4 DEF Run, fileVars
<1>5. CASE Act
  <2>1. /\ phase = "act" /\ cmd' = cmd /\ calm /\ force /\ ver' = ver
        /\ made' = [v \in Outputs |-> IF v \in Writes[Cur] THEN Rebuild(v) ELSE made[v]]
    <3>1. phase = "act" /\ cmd' = cmd /\ calm /\ force /\ ver' = ver /\ Produce(Writes[Cur], {})
      BY <1>5 DEF Act
    <3>2. from = Needs
      <4>1. ~leaf
        BY <3>1, Zenon DEF TypeOK, FlagsOK
      <4> QED
        BY <4>1 DEF TypeOK, StoreOK
    <3> QED
      BY <3>1, <3>2 DEF Produce, Made, Rebuild
  <2>2. /\ pos \in 1..Len(cmd) /\ cmd \in Seq(Steps) /\ Cur \in Steps
        /\ Writes[Cur] \subseteq Outputs
    BY <2>1, CurStep, GraphFacts DEF TypeOK, StoreOK
  <2>3. i \in 1..pos
    <3>1. doneNext = pos
      <4>1. CASE leaf
        BY <1>1, <1>5, <4>1 DEF Act, Advance
      <4>2. CASE ~leaf
        BY <1>1, <1>5, <4>2 DEF Act
      <4> QED
        BY <4>1, <4>2
    <3> QED
      BY <3>1
  <2>4. cmd[i] \in Steps /\ Writes[Cur] \cap Reads(cmd[i]) = {}
    <3>1. CASE i = pos
      BY <2>2, <3>1, GraphFacts DEF Cur
    <3>2. CASE i \in 1..(pos - 1)
      BY <2>1, <3>2, EarlierBlind
    <3> QED
      BY <1>1, <2>3, <3>1, <3>2
  <2>5. w \in Outputs /\ Needs[w] \subseteq Reads(cmd[i]) /\ Needs[w] \subseteq Sources \cup Outputs
    BY <2>1, <2>4, GraphFacts, GraphType
  <2>6. Rebuild(w)' = Rebuild(w)
    BY <2>1, <2>4, <2>5 DEF Rebuild, Content
  <2>7. CASE w \in Writes[Cur]
    BY <2>1, <2>5, <2>6, <2>7
  <2>8. CASE w \notin Writes[Cur]
    <3>1. i \in 1..(pos - 1)
      BY <1>1, <2>1, <2>3, <2>8 DEF Cur
    <3>2. made[w] = Rebuild(w)
      BY <2>1, <3>1 DEF ForceInv
    <3> QED
      BY <2>1, <2>5, <2>6, <2>8, <3>2
  <2> QED
    BY <2>7, <2>8
<1>6. CASE Missing \/ Break
  <2>1. phase = "act" /\ phase' = "idle" /\ UNCHANGED <<cmd, pos>>
    BY <1>6 DEF Missing, Break, StopInAct
  <2> QED
    BY <2>1, CurStep DEF Completed
<1>7. CASE Mark
  <2>1. doneNext = pos /\ done = pos
    BY <1>1, <1>7 DEF Mark, Advance
  <2>2. UNCHANGED <<made, ver, cmd, calm, force>> /\ phase # "idle"
    BY <1>7 DEF Mark
  <2> QED
    BY <1>2, <2>1, <2>2
<1>8. ASSUME NEW torn \in BOOLEAN, Kill(torn) PROVE FALSE
  BY <1>8, CurStep DEF Kill, Completed
<1>9. ASSUME NEW c \in Commands, NEW f \in Forcible, Invoke(c, f) PROVE FALSE
  BY <1>9 DEF Invoke
<1>10. ASSUME NEW s \in Steps, NEW t \in Leaves[s], InvokeLeaf(s, t) PROVE FALSE
  BY <1>10 DEF InvokeLeaf
<1>11. ASSUME NEW X \in Editable, Edit(X) \/ QuietEdit(X) PROVE FALSE
  BY <1>11 DEF Edit, QuietEdit
<1>12. ASSUME NEW full \in BOOLEAN, Clean(full) PROVE FALSE
  BY <1>12 DEF Clean, Remove
<1>13. ASSUME NEW gone \in Cuts, CleanCut(gone) PROVE FALSE
  BY <1>13 DEF CleanCut, Remove
<1>14. CASE UNCHANGED vars
  BY <1>2, <1>14 DEF vars, fileVars, procVars, Completed
<1> QED
  BY <1>3, <1>4, <1>5, <1>6, <1>7, <1>8, <1>9, <1>10, <1>11, <1>12, <1>13, <1>14
  DEF Next, Forge

-----------------------------------------------------------------------------
(* The theorems.                                                           *)

LEMMA StageInvInit == Init => StageInv
<1> SUFFICES ASSUME Init PROVE StageInv
  OBVIOUS
<1>1. TypeOK
  BY TypeInit
<1>2. RecordInv
  BY DEF Init, RecordInv, UpToDate
<1>3. MarkInv /\ DoneInv /\ ForceInv
  BY DEF Init, MarkInv, DoneInv, ForceInv
<1> QED
  BY <1>1, <1>2, <1>3 DEF StageInv

LEMMA StageInvNext == StageInv /\ [Next]_vars => StageInv'
BY TypeNext, RecordsNext, DoneNext, ForceNext DEF StageInv

\* The inductive invariant of the orchestrator holds for every step graph.
THEOREM StageInvariant == Spec => []StageInv
BY StageInvInit, StageInvNext, PTL DEF Spec

LEMMA SkipIsRerunHolds == StageInv => SkipIsRerun
<1> SUFFICES ASSUME StageInv, NEW s \in Steps, Linked(s), Settled(s), NEW w \in Writes[s]
             PROVE  Vis(made[w]) = Vis(Rebuild(w))
  BY DEF SkipIsRerun
<1>1. RecordInv /\ Faithful(s)
  BY DEF StageInv, RecordInv, Vouched, Settled
<1>2. \A r \in Reads(s) : Vis(Seen(s, r)) = Vis(Content(r))
  BY <1>1, SettledSeen DEF Settled
<1>3. w \in Outputs /\ Needs[w] \subseteq Reads(s)
  BY GraphFacts
<1>4. Vis(made[w]) = UNION {Vis(Seen(s, r)) : r \in Needs[w]}
  BY <1>1 DEF Faithful
<1>5. UNION {Vis(Seen(s, r)) : r \in Needs[w]} = UNION {Vis(Content(r)) : r \in Needs[w]}
  BY <1>2, <1>3
<1> QED
  BY <1>3, <1>4, <1>5, VisRebuild

\* A skip that the fingerprints allow leaves what a rerun would produce, for
\* every graph, interleaving of edits, crash, leaf command and clean.
THEOREM SkipSound == Spec => []SkipIsRerun
BY StageInvariant, SkipIsRerunHolds, PTL

LEMMA RerunSkipsHolds == StageInv => RerunSkips
<1> SUFFICES ASSUME StageInv, Completed, calm, ~leaf, NEW i \in 1..Len(cmd)
             PROVE  UpToDate(cmd[i])
  BY DEF RerunSkips
<1>1. Len(cmd) \in Nat
  BY DEF StageInv, TypeOK, StoreOK
<1>2. i \in 1..(pos - 1)
  BY <1>1 DEF Completed
<1> QED
  BY <1>2 DEF StageInv, DoneInv

\* A finished command is idempotent: all its steps are up to date.
THEOREM RerunIdle == Spec => []RerunSkips
BY StageInvariant, RerunSkipsHolds, PTL

LEMMA ForceDeliversHolds == StageInv => ForceDelivers
<1> SUFFICES ASSUME StageInv, Completed, calm, force,
                    NEW i \in 1..Len(cmd), NEW w \in Writes[cmd[i]]
             PROVE  made[w] = Rebuild(w)
  BY DEF ForceDelivers
<1>1. Len(cmd) \in Nat
  BY DEF StageInv, TypeOK, StoreOK
<1>2. i \in 1..(pos - 1) /\ phase # "mark"
  BY <1>1 DEF Completed
<1> QED
  BY <1>2 DEF StageInv, ForceInv

\* A forced command delivers a full rebuild, whatever happened before it.
THEOREM ForceRebuilds == Spec => []ForceDelivers
BY StageInvariant, ForceDeliversHolds, PTL

LEMMA PackDeliversHolds == StageInv => PackDelivers
<1> DEFINE C == {cmd[j] : j \in 1..Len(cmd)}
<1> SUFFICES ASSUME StageInv, Completed, calm, ~leaf,
                    \A i \in 1..Len(cmd) : /\ Linked(cmd[i])
                                           /\ cmd[i] \notin taint
                                           /\ Vouchers(cmd[i]) \subseteq C,
                    NEW i \in 1..Len(cmd), NEW w \in Writes[cmd[i]]
             PROVE  Vis(made[w]) = Vis(Rebuild(w))
  BY DEF PackDelivers
<1>1. cmd[i] \in Steps
  <2>1. cmd \in Seq(Steps)
    BY DEF StageInv, TypeOK, StoreOK
  <2> QED
    BY <2>1
<1>2. \A p \in C : UpToDate(p) /\ p \notin taint
  BY RerunSkipsHolds DEF RerunSkips
<1>3. Settled(cmd[i])
  BY <1>2 DEF Settled
<1> QED
  BY <1>1, <1>3, SkipIsRerunHolds DEF SkipIsRerun

\* A finished command that skipped what it could delivers, as far as the input
\* lists see, what a full rebuild would.
THEOREM PackRebuilds == Spec => []PackDelivers
BY StageInvariant, PackDeliversHolds, PTL
=============================================================================
