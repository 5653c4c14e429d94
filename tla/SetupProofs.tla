---------------------------- MODULE SetupProofs ----------------------------
(***************************************************************************)
(* Proofs about Setup for every board, series, pin and bound.  SetupInv is  *)
(* inductive relative to its own conjuncts, so each lemma assumes SetupInv  *)
(* and one action and gives some of the conjuncts after it.                 *)
(***************************************************************************)
EXTENDS Setup, TLAPS

\* The digest and the list of patches are well-formed whenever there is a series.
LEMMA SeriesType ==
  ASSUME StateOK
  PROVE  /\ Series \in Seq(Entries)
         /\ SeriesDigest \in Digests
         /\ HasSeries => /\ list \in Seq(Patches)
                         /\ Len(Series) = Len(list)
                         /\ \A i \in 1..Len(list) : Series[i] = <<list[i], text[list[i]]>>
<1>1. ASSUME HasSeries PROVE list \in Seq(Patches)
  BY <1>1, SetupConstants DEF StateOK, HasSeries
<1>2. ASSUME HasSeries
      PROVE  /\ Series \in Seq(Entries)
             /\ Len(Series) = Len(list)
             /\ \A i \in 1..Len(list) : Series[i] = <<list[i], text[list[i]]>>
  <2>1. Series = [i \in 1..Len(list) |-> <<list[i], text[list[i]]>>]
    BY <1>2 DEF Series
  <2>2. Len(list) \in Nat /\ \A i \in 1..Len(list) : list[i] \in Patches
    BY <1>1, <1>2
  <2>3. text \in [Patches -> Texts]
    BY DEF StateOK
  <2>4. \A i \in 1..Len(list) : <<list[i], text[list[i]]>> \in Entries
    BY <2>2, <2>3 DEF Entries
  <2>5. Series \in [1..Len(list) -> Entries]
    BY <2>1, <2>4
  <2> QED
    BY <2>1, <2>2, <2>5
<1>3. ~HasSeries => Series \in Seq(Entries)
  BY DEF Series
<1> QED
  BY <1>1, <1>2, <1>3 DEF SeriesDigest, Digests, StateOK

\* One more patch on a tree is a tree.
LEMMA OneMore ==
  ASSUME NEW t \in Trees, NEW e \in Entries
  PROVE  /\ [t EXCEPT !.applied = Append(@, e)] \in Trees
         /\ [t EXCEPT !.applied = Append(@, e)] =
              [at |-> t.at, applied |-> Append(t.applied, e)]
<1>1. t.at \in Pins \cup {Tip} /\ t.applied \in Seq(Entries)
  BY DEF Trees
<1>2. Append(t.applied, e) \in Seq(Entries)
  BY <1>1
<1>3. [t EXCEPT !.applied = Append(@, e)] = [at |-> t.at, applied |-> Append(t.applied, e)]
  BY DEF Trees
<1> QED
  BY <1>1, <1>2, <1>3 DEF Trees

\* The flags stay Boolean.
LEMMA FlagsStep ==
  ASSUME FlagsOK, StateOK, [Next]_vars
  PROVE  FlagsOK'
<1>1. CASE \E c \in Commands, f \in Forcible : Start(c, f)
  <2>1. PICK c \in Commands, f \in Forcible : Start(c, f)
    BY <1>1
  <2>2. f \in BOOLEAN
    BY SetupConstants
  <2> QED
    BY <2>1, <2>2 DEF Start, FirstPhase, FlagsOK, treeVars
<1>2. CASE Fetch
  BY <1>2 DEF Fetch, FlagsOK, treeVars
<1>3. CASE Driver
  BY <1>3 DEF Driver, AfterDriver, FlagsOK
<1>4. CASE Check \/ Reset \/ CleanTree \/ StartApply \/ Record
  BY <1>4 DEF Check, Reset, CleanTree, CleanWorktree, StartApply, Record, FlagsOK, treeVars
<1>5. CASE Am
  BY <1>5 DEF Am, FlagsOK, histVars
<1>6. CASE AmDone
  BY <1>6 DEF AmDone, FlagsOK, treeVars
<1>7. CASE Rollback
  BY <1>7 DEF Rollback, CleanWorktree, FlagsOK
<1>8. CASE Break
  BY <1>8 DEF Break, CutFetch, CutDriver, CutAm, CutBetween, FlagsOK
<1>9. CASE \/ \E p \in Patches, v \in Texts : EditPatch(p, v)
           \/ \E l \in Lists : EditSeries(l)
           \/ \E r \in Pins : Repin(r)
           \/ Refetch \/ Work \/ ForgeClean
  BY <1>9 DEF EditPatch, EditSeries, Repin, Refetch, Work, ForgeClean, Change,
     FlagsOK, treeVars, procVars
<1>10. CASE UNCHANGED vars
  BY <1>10 DEF vars, FlagsOK, treeVars, procVars, histVars
<1> QED
  BY <1>1, <1>2, <1>3, <1>4, <1>5, <1>6, <1>7, <1>8, <1>9, <1>10 DEF Next, Forge

\* The rest of the state keeps its shape.
LEMMA StateStep ==
  ASSUME StateOK, PhaseInv, [Next]_vars
  PROVE  StateOK'
<1>1. CASE \E c \in Commands, f \in Forcible : Start(c, f)
  <2>1. PICK c \in Commands, f \in Forcible : Start(c, f)
    BY <1>1
  <2>2. c \in {"none", "setup", "fetch", "apply", "check"}
    BY SetupConstants
  <2> QED
    BY <2>1, <2>2 DEF Start, FirstPhase, StateOK, boardVars, treeVars
<1>2. CASE Fetch
  <2>1. [at |-> pin, applied |-> <<>>] \in Trees
    BY DEF StateOK, Trees
  <2> QED
    BY <1>2, <2>1 DEF Fetch, Goto, StateOK, boardVars, treeVars
<1>3. CASE Driver
  BY <1>3 DEF Driver, AfterDriver, Goto, End, StateOK, boardVars
<1>4. CASE Check
  BY <1>4, SeriesType DEF Check, Goto, End, StateOK, boardVars, treeVars
<1>5. CASE Reset
  <2>1. [at |-> digest.base, applied |-> <<>>] \in Trees
    BY <1>5 DEF Reset, StateOK, PhaseInv, Trees, Digests
  <2> QED
    BY <1>5, <2>1 DEF Reset, Goto, StateOK, boardVars
<1>6. CASE CleanTree
  BY <1>6 DEF CleanTree, CleanWorktree, Goto, StateOK, boardVars
<1>7. CASE StartApply
  <2>1. HasSeries => list \in Seq(Patches)
    BY SeriesType
  <2>2. todo' \in Seq(Patches) /\ pre' = tree
    <3>1. <<>> \in Seq(Patches)
      OBVIOUS
    <3>2. pre' = tree /\ ((todo' = list /\ HasSeries) \/ todo' = <<>>)
      BY <1>7 DEF StartApply
    <3> QED
      BY <2>1, <3>1, <3>2
  <2>3. phase' \in {"am", "record", "idle"} /\ outcome' \in {outcome, "done"}
    BY <1>7 DEF StartApply, Applied, Goto, End
  <2> QED
    BY <1>7, <2>2, <2>3 DEF StartApply, StateOK, boardVars, treeVars
<1>8. CASE Am
  <2>1. /\ tree \in Trees /\ todo \in Seq(Patches) /\ todo # <<>>
        /\ Head(todo) \in Patches /\ Tail(todo) \in Seq(Patches)
        /\ <<Head(todo), text[Head(todo)]>> \in Entries
    BY <1>8 DEF Am, StateOK, PhaseInv, Entries
  <2>2. [tree EXCEPT !.applied = Append(@, <<Head(todo), text[Head(todo)]>>)] \in Trees
    BY <2>1, OneMore
  <2>3. [tree EXCEPT !.applied = @] = tree
    BY <2>1 DEF Trees
  <2>4. tree' \in Trees /\ todo' \in Seq(Patches) /\ phase' \in {"am", "rollback"}
    BY <1>8, <2>1, <2>2, <2>3 DEF Am
  <2> QED
    BY <1>8, <2>4 DEF Am, StateOK, boardVars, histVars
<1>9. CASE AmDone
  BY <1>9 DEF AmDone, Applied, Goto, End, StateOK, boardVars, treeVars
<1>10. CASE Rollback
  BY <1>10 DEF Rollback, CleanWorktree, End, StateOK, boardVars
<1>11. CASE Record
  BY <1>11 DEF Record, End, StateOK, boardVars, treeVars
<1>12. CASE Break
  <2>1. breaks' \in Nat
    BY <1>12 DEF Break, StateOK
  <2>2. CASE CutFetch
    <3>1. [at |-> Tip, applied |-> <<>>] \in Trees
      BY DEF Trees
    <3>2. tree' \in Trees \cup {NoTree} /\ known' \subseteq Pins
      BY <2>2, <3>1 DEF CutFetch, StateOK
    <3> QED
      BY <1>12, <2>1, <2>2, <3>2 DEF Break, CutFetch, End, StateOK, boardVars
  <2>3. CASE CutDriver
    BY <1>12, <2>1, <2>3 DEF Break, CutDriver, End, StateOK, boardVars
  <2>4. CASE CutAm
    <3>1. /\ tree \in Trees /\ Head(todo) \in Patches
          /\ <<Head(todo), text[Head(todo)]>> \in Entries
      BY <2>4 DEF CutAm, StateOK, PhaseInv, Entries
    <3>2. tree' \in Trees
      BY <2>4, <3>1, OneMore DEF CutAm
    <3> QED
      BY <1>12, <2>1, <2>4, <3>2 DEF Break, CutAm, End, StateOK, boardVars
  <2>5. CASE CutBetween
    BY <1>12, <2>1, <2>5 DEF Break, CutBetween, End, StateOK, boardVars
  <2> QED
    BY <1>12, <2>2, <2>3, <2>4, <2>5 DEF Break
<1>13. CASE \E p \in Patches, v \in Texts : EditPatch(p, v)
  BY <1>13 DEF EditPatch, Change, StateOK, treeVars, procVars
<1>14. CASE \E l \in Lists : EditSeries(l)
  BY <1>14 DEF EditSeries, Change, StateOK, treeVars, procVars
<1>15. CASE \E r \in Pins : Repin(r)
  BY <1>15 DEF Repin, Change, StateOK, procVars
<1>16. CASE Refetch
  BY <1>16 DEF Refetch, Change, StateOK, procVars, boardVars
<1>17. CASE Work
  BY <1>17 DEF Work, Change, StateOK, procVars, boardVars
<1>18. CASE ForgeClean
  BY <1>18 DEF ForgeClean, Change, StateOK, procVars, boardVars, treeVars
<1>19. CASE UNCHANGED vars
  BY <1>19 DEF vars, StateOK, boardVars, treeVars, procVars, histVars
<1> QED
  BY <1>1, <1>2, <1>3, <1>4, <1>5, <1>6, <1>7, <1>8, <1>9, <1>10, <1>11, <1>12,
     <1>13, <1>14, <1>15, <1>16, <1>17, <1>18, <1>19 DEF Next, Forge

\* A command is where its kind lets it be, with a tree to work on.
LEMMA PhaseStep ==
  ASSUME SetupInv, [Next]_vars
  PROVE  PhaseInv'
<1>a. PhaseInv /\ StateOK /\ FlagsOK
  BY DEF SetupInv, TypeOK
<1>1. CASE \E c \in Commands, f \in Forcible : Start(c, f)
  <2>1. PICK c \in Commands, f \in Forcible : Start(c, f)
    BY <1>1
  <2>2. c \in {"setup", "fetch", "apply", "check"}
    BY SetupConstants
  <2>3. CASE c \in {"apply", "check"}
    BY <2>1, <2>3, <1>a DEF Start, FirstPhase, PhaseInv, treeVars
  <2>4. CASE c \in {"setup", "fetch"}
    BY <2>1, <2>4, <1>a DEF Start, FirstPhase, PhaseInv, treeVars
  <2> QED
    BY <2>2, <2>3, <2>4
<1>2. CASE Fetch
  <2>1. [at |-> pin, applied |-> <<>>] # NoTree
    <3>1. [at |-> pin, applied |-> <<>>] \in Trees
      BY <1>a DEF StateOK, Trees
    <3> QED
      BY <3>1, NoneIsNone
  <2> QED
    BY <1>2, <1>a, <2>1 DEF Fetch, Goto, PhaseInv, treeVars
<1>3. CASE Driver
  BY <1>3, <1>a DEF Driver, AfterDriver, Goto, End, PhaseInv
<1>4. CASE Check
  <2>1. SeriesDigest \in Digests /\ SeriesDigest.base = pin
    BY <1>a, SeriesType DEF SeriesDigest
  <2>2. SeriesDigest # NoDigest
    BY <2>1, NoneIsNone
  <2>3. tree' = tree /\ cmd' = cmd /\ pin' = pin /\ cmd = "setup" /\ tree # NoTree
    BY <1>4, <1>a DEF Check, PhaseInv, treeVars, boardVars
  <2>4. CASE phase' = "idle"
    BY <2>3, <2>4 DEF PhaseInv
  <2>5. CASE phase' = "reset" /\ outcome' = outcome /\ digest' = SeriesDigest
    BY <1>4, <1>a, <2>1, <2>2, <2>3, <2>5 DEF PhaseInv, Check
  <2> QED
    BY <1>4, <2>4, <2>5 DEF Check, Goto, End
<1>5. CASE Reset
  <2>1. tree' # NoTree
    <3>1. tree' \in Trees
      BY <1>5, <1>a DEF Reset, PhaseInv, StateOK, Trees, Digests
    <3> QED
      BY <3>1, NoneIsNone
  <2> QED
    BY <1>5, <1>a, <2>1 DEF Reset, Goto, PhaseInv, boardVars
<1>6. CASE CleanTree
  BY <1>6, <1>a DEF CleanTree, Goto, PhaseInv, boardVars
<1>7. CASE StartApply
  BY <1>7, <1>a DEF StartApply, Applied, Goto, End, PhaseInv, boardVars, treeVars
<1>8. CASE Am
  <2>1. tree' # NoTree
    <3>1. /\ tree \in Trees /\ <<Head(todo), text[Head(todo)]>> \in Entries
      BY <1>8, <1>a DEF Am, StateOK, PhaseInv, Entries
    <3>2. [tree EXCEPT !.applied = @] = tree
      BY <3>1 DEF Trees
    <3>3. [tree EXCEPT !.applied = Append(@, <<Head(todo), text[Head(todo)]>>)] \in Trees
      BY <3>1, OneMore
    <3>4. tree' \in Trees
      BY <1>8, <3>1, <3>2, <3>3 DEF Am
    <3> QED
      BY <3>4, NoneIsNone
  <2> QED
    BY <1>8, <1>a, <2>1 DEF Am, PhaseInv, boardVars, histVars
<1>9. CASE AmDone
  BY <1>9, <1>a DEF AmDone, Applied, Goto, End, PhaseInv, boardVars, treeVars
<1>10. CASE Rollback
  BY <1>10 DEF Rollback, End, PhaseInv
<1>11. CASE Record
  BY <1>11 DEF Record, End, PhaseInv
<1>12. CASE Break
  BY <1>12 DEF Break, End, PhaseInv
<1>13. CASE \/ \E p \in Patches, v \in Texts : EditPatch(p, v)
            \/ \E l \in Lists : EditSeries(l)
            \/ Work \/ ForgeClean
  BY <1>13, <1>a DEF EditPatch, EditSeries, Work, ForgeClean, Change, PhaseInv,
     treeVars, procVars, boardVars
<1>14. CASE \E r \in Pins : Repin(r)
  BY <1>14, <1>a DEF Repin, Change, PhaseInv, procVars
<1>15. CASE Refetch
  BY <1>15, <1>a DEF Refetch, Change, PhaseInv, procVars
<1>16. CASE UNCHANGED vars
  BY <1>16, <1>a DEF vars, PhaseInv, treeVars, procVars, histVars, boardVars
<1> QED
  BY <1>1, <1>2, <1>3, <1>4, <1>5, <1>6, <1>7, <1>8, <1>9, <1>10, <1>11, <1>12,
     <1>13, <1>14, <1>15, <1>16 DEF Next, Forge

\* What one successful `git am` does to a setup's replay: the next entry of the
\* series is appended, because no patch of that name is there yet.
LEMMA AmAppends ==
  ASSUME StateOK, PhaseInv, HasSeries, Halfway, Am, phase' = "am"
  PROVE  /\ tree' = [at |-> tree.at, applied |-> Append(tree.applied, Series[Len(tree.applied) + 1])]
         /\ Len(tree.applied) + 1 \in 1..Len(list)
         /\ todo' = Tail(todo) /\ todo # <<>>
<1>1. /\ tree \in Trees /\ todo \in Seq(Patches) /\ list \in Seq(Patches) /\ todo # <<>>
      /\ tree.applied \in Seq(Entries) /\ Head(todo) \in Patches
  BY SeriesType DEF Am, StateOK, PhaseInv, Trees
<1> DEFINE k == Len(tree.applied)
           e == <<Head(todo), text[Head(todo)]>>
<1>2. k \in Nat /\ Len(todo) \in Nat /\ Len(todo) > 0 /\ Len(list) \in Nat /\ k + Len(todo) = Len(list)
  BY <1>1 DEF Halfway
<1>3. k + 1 \in 1..Len(list) /\ Head(todo) = list[k + 1]
  BY <1>1, <1>2 DEF Halfway
<1>4. \A i \in 1..k : tree.applied[i] # e
  <2> SUFFICES ASSUME NEW i \in 1..k, tree.applied[i] = e PROVE FALSE
    OBVIOUS
  <2>1. tree.applied[i] = <<list[i], text[list[i]]>>
    BY DEF Halfway
  <2>2. list[i] = list[k + 1]
    BY <1>3, <2>1
  <2>3. i \in 1..Len(list) /\ i # k + 1
    BY <1>2
  <2>4. list \in Lists \ {NoSeries}
    BY DEF StateOK, HasSeries
  <2> QED
    BY <1>3, <2>2, <2>3, <2>4, SetupConstants
<1>5. e \in Entries
  BY <1>1 DEF StateOK, Entries
<1>6. e = Series[k + 1]
  BY <1>3, SeriesType
<1>7. ~(\E i \in 1..Len(tree.applied) : tree.applied[i] = e)
  BY <1>4
<1>8. tree' = [tree EXCEPT !.applied = Append(@, e)] /\ todo' = Tail(todo)
  BY <1>7 DEF Am
<1> QED
  BY <1>1, <1>3, <1>5, <1>6, <1>8, OneMore

\* The replay of an undisturbed setup goes through the series in order.
LEMMA ReplayStep ==
  ASSUME SetupInv, [Next]_vars
  PROVE  ReplayInv'
<1>a. PhaseInv /\ StateOK /\ ReplayInv
  BY DEF SetupInv, TypeOK
<1>1. CASE \E c \in Commands, f \in Forcible : Start(c, f)
  <2>1. PICK c \in Commands, f \in Forcible : Start(c, f)
    BY <1>1
  <2> QED
    BY <2>1 DEF Start, FirstPhase, ReplayInv
<1>2. CASE Fetch \/ Driver
  BY <1>2 DEF Fetch, Driver, AfterDriver, Goto, End, ReplayInv
<1>3. CASE Check
  <2> SUFFICES ASSUME phase' = "reset" PROVE ReplayInv'
    BY <1>3 DEF Check, Goto, End, ReplayInv
  <2>1. HasSeries /\ pin \in known /\ digest' = SeriesDigest
    BY <1>3 DEF Check, Goto, End
  <2> QED
    BY <1>3, <2>1 DEF Check, ReplayInv, SeriesDigest, Series, HasSeries, boardVars, treeVars
<1>4. CASE Reset
  <2> SUFFICES ASSUME cmd = "setup", calm PROVE ReplayInv'
    BY <1>4 DEF Reset, ReplayInv
  <2>1. HasSeries /\ pin \in known /\ digest = SeriesDigest
    BY <1>4, <1>a DEF Reset, ReplayInv
  <2>2. digest.base = pin
    BY <2>1 DEF SeriesDigest
  <2> QED
    BY <1>4, <2>1, <2>2 DEF Reset, Goto, ReplayInv, Clean, SeriesDigest, Series, HasSeries, boardVars
<1>5. CASE CleanTree
  BY <1>5, <1>a DEF CleanTree, Goto, ReplayInv, Clean, SeriesDigest, Series, HasSeries, boardVars
<1>6. CASE StartApply
  <2> SUFFICES ASSUME cmd = "setup", calm PROVE ReplayInv'
    BY <1>6 DEF StartApply, ReplayInv
  <2>1. HasSeries /\ pin \in known /\ digest = SeriesDigest /\ Clean(tree, pin)
    BY <1>6, <1>a DEF StartApply, ReplayInv
  <2>2. list \in Seq(Patches) /\ Len(list) \in Nat /\ Len(Series) = Len(list)
    BY <1>a, <2>1, SeriesType
  <2>3. CASE list # <<>>
    <3>1. pre' = tree /\ todo' = list /\ phase' = "am" /\ tree' = tree
      BY <1>6, <2>1, <2>3 DEF StartApply, Goto, treeVars
    <3>2. Halfway'
      <4>1. tree.applied = <<>> /\ tree.at = pin
        BY <2>1 DEF Clean
      <4> QED
        BY <1>6, <2>2, <3>1, <4>1 DEF StartApply, Halfway, boardVars
    <3> QED
      BY <1>6, <2>1, <3>1, <3>2
         DEF StartApply, ReplayInv, Clean, SeriesDigest, Series, HasSeries, boardVars, treeVars
  <2>4. CASE list = <<>>
    <3>1. phase' = "record"
      BY <1>6, <2>4 DEF StartApply, Applied, Goto
    <3>2. Series = <<>>
      <4>1. Series \in Seq(Entries) /\ Len(Series) = 0
        BY <1>a, <2>1, <2>2, <2>4, SeriesType
      <4> QED
        BY <4>1
    <3>3. Exact
      BY <2>1, <3>2 DEF Exact, Clean
    <3> QED
      BY <1>6, <2>1, <3>1, <3>3
         DEF StartApply, ReplayInv, Exact, SeriesDigest, Series, HasSeries, boardVars, treeVars
  <2> QED
    BY <2>3, <2>4
<1>7. CASE Am
  <2> SUFFICES ASSUME cmd = "setup", calm PROVE ReplayInv'
    BY <1>7 DEF Am, ReplayInv, histVars
  <2>1. HasSeries /\ pin \in known /\ digest = SeriesDigest /\ Clean(pre, pin) /\ Halfway
    BY <1>7, <1>a DEF Am, ReplayInv
  <2>2. HasSeries' /\ (pin \in known)' /\ (digest = SeriesDigest)' /\ Clean(pre, pin)'
    BY <1>7, <2>1 DEF Am, Clean, SeriesDigest, Series, HasSeries, boardVars
  <2>3. CASE phase' = "am"
    <3>1. /\ tree' = [at |-> tree.at, applied |-> Append(tree.applied, Series[Len(tree.applied) + 1])]
          /\ Len(tree.applied) + 1 \in 1..Len(list)
          /\ todo' = Tail(todo) /\ todo # <<>>
      BY <1>7, <1>a, <2>1, <2>3, AmAppends
    <3>2. /\ tree.applied \in Seq(Entries) /\ list \in Seq(Patches) /\ todo \in Seq(Patches)
          /\ tree.at = pin
          /\ Series[Len(tree.applied) + 1] =
               <<list[Len(tree.applied) + 1], text[list[Len(tree.applied) + 1]]>>
          /\ Series[Len(tree.applied) + 1] \in Entries
      <4>1. tree \in Trees
        BY <1>7, <1>a DEF Am, StateOK, PhaseInv
      <4>2. Series \in Seq(Entries) /\ Len(Series) = Len(list) /\ list \in Seq(Patches)
        BY <1>a, <2>1, SeriesType
      <4>3. Series[Len(tree.applied) + 1] \in Entries
        BY <3>1, <4>2
      <4> QED
        BY <1>a, <2>1, <3>1, <4>1, <4>2, <4>3, SeriesType DEF StateOK, Trees, Halfway
    <3>3. list' = list /\ text' = text /\ pin' = pin
      BY <1>7 DEF Am, boardVars
    <3>4. /\ tree'.at = pin
          /\ tree'.applied = Append(tree.applied, Series[Len(tree.applied) + 1])
          /\ Len(tree'.applied) = Len(tree.applied) + 1
      BY <3>1, <3>2
    <3>5. Len(todo') = Len(todo) - 1 /\ \A i \in 1..Len(todo') : todo'[i] = todo[i + 1]
      BY <3>1, <3>2
    <3>6. /\ Len(tree.applied) \in Nat /\ Len(todo) \in Nat
          /\ Len(tree'.applied) + Len(todo') = Len(list)
      <4>1. Len(tree.applied) \in Nat /\ Len(todo) \in Nat
        BY <3>2
      <4>2. Len(tree.applied) + Len(todo) = Len(list)
        BY <2>1 DEF Halfway
      <4>3. Len(tree'.applied) = Len(tree.applied) + 1 /\ Len(todo') = Len(todo) - 1
        BY <3>4, <3>5
      <4> QED
        BY <4>1, <4>2, <4>3
    <3>7. \A i \in 1..Len(tree'.applied) : tree'.applied[i] = <<list[i], text[list[i]]>>
      BY <2>1, <3>2, <3>4 DEF Halfway
    <3>8. \A i \in 1..Len(todo') : todo'[i] = list[Len(tree'.applied) + i]
      <4> SUFFICES ASSUME NEW i \in 1..Len(todo')
                   PROVE  todo'[i] = list[Len(tree'.applied) + i]
        OBVIOUS
      <4>1. i + 1 \in 1..Len(todo) /\ todo'[i] = todo[i + 1]
        BY <3>2, <3>5
      <4>2. todo[i + 1] = list[Len(tree.applied) + (i + 1)]
        BY <2>1, <4>1 DEF Halfway
      <4>3. Len(tree.applied) + (i + 1) = Len(tree'.applied) + i
        <5>1. Len(tree'.applied) = Len(tree.applied) + 1 /\ Len(tree.applied) \in Nat
          BY <3>4, <3>6
        <5>2. i \in Nat
          OBVIOUS
        <5>3. \A m, n \in Nat : m + (n + 1) = (m + 1) + n
          OBVIOUS
        <5>4. Len(tree.applied) + (i + 1) = (Len(tree.applied) + 1) + i
          BY <5>1, <5>2, <5>3
        <5> QED
          BY <5>1, <5>4
      <4> QED
        BY <4>1, <4>2, <4>3
    <3>9. Halfway'
      BY <3>3, <3>4, <3>6, <3>7, <3>8 DEF Halfway
    <3> QED
      BY <2>2, <2>3, <3>9 DEF ReplayInv
  <2>4. CASE phase' = "rollback"
    BY <2>2, <2>4 DEF ReplayInv
  <2> QED
    BY <1>7, <2>3, <2>4 DEF Am
<1>8. CASE AmDone
  <2> SUFFICES ASSUME cmd = "setup", calm PROVE ReplayInv'
    BY <1>8 DEF AmDone, ReplayInv
  <2>1. HasSeries /\ pin \in known /\ digest = SeriesDigest /\ Halfway /\ todo = <<>>
    BY <1>8, <1>a DEF AmDone, ReplayInv
  <2>2. tree \in Trees /\ tree.applied \in Seq(Entries) /\ Series \in Seq(Entries)
        /\ Len(Series) = Len(list) /\ list \in Seq(Patches)
    BY <1>8, <1>a, <2>1, SeriesType DEF AmDone, StateOK, PhaseInv, Trees
  <2>3. Len(tree.applied) = Len(Series)
    BY <2>1, <2>2 DEF Halfway
  <2>4. \A i \in 1..Len(Series) : tree.applied[i] = Series[i]
    BY <1>a, <2>1, <2>2, <2>3, SeriesType DEF Halfway
  <2>5. tree.applied = Series
    BY <2>2, <2>3, <2>4
  <2>6. Exact
    BY <2>1, <2>2, <2>5 DEF Exact, Halfway, Trees
  <2>7. phase' = "record"
    BY <1>8 DEF AmDone, Applied, Goto
  <2> QED
    BY <1>8, <2>1, <2>6, <2>7
       DEF AmDone, ReplayInv, Exact, SeriesDigest, Series, HasSeries, boardVars, treeVars
<1>9. CASE Rollback \/ Record \/ Break
  BY <1>9 DEF Rollback, Record, Break, End, ReplayInv
<1>10. CASE \/ \E p \in Patches, v \in Texts : EditPatch(p, v)
            \/ \E l \in Lists : EditSeries(l)
            \/ \E r \in Pins : Repin(r)
            \/ Refetch \/ Work \/ ForgeClean
  BY <1>10 DEF EditPatch, EditSeries, Repin, Refetch, Work, ForgeClean, Change, ReplayInv
<1>11. CASE UNCHANGED vars
  BY <1>11, <1>a DEF vars, ReplayInv, Clean, Halfway, Exact, SeriesDigest, Series, HasSeries,
     boardVars, treeVars, procVars, histVars
<1> QED
  BY <1>1, <1>2, <1>3, <1>4, <1>5, <1>6, <1>7, <1>8, <1>9, <1>10, <1>11 DEF Next, Forge

\* What a kept digest tells of the tree stays true while it is trusted.
LEMMA TrustStep ==
  ASSUME SetupInv, [Next]_vars
  PROVE  TrustInv'
<1>a. PhaseInv /\ StateOK /\ FlagsOK /\ TrustInv /\ ReplayInv
  BY DEF SetupInv, TypeOK
<1> USE DEF Told, Clean
<1>1. CASE \E c \in Commands, f \in Forcible : Start(c, f)
  <2>1. PICK c \in Commands, f \in Forcible : Start(c, f)
    BY <1>1
  <2> QED
    BY <2>1, <1>a DEF Start, FirstPhase, TrustInv, Replaying, boardVars, treeVars
<1>2. CASE Fetch
  BY <1>2, <1>a DEF Fetch, Goto, TrustInv, Replaying, boardVars, treeVars
<1>3. CASE Driver
  BY <1>3, <1>a DEF Driver, AfterDriver, Goto, End, TrustInv, Replaying, boardVars
<1>4. CASE Check
  BY <1>4, <1>a DEF Check, Goto, End, TrustInv, Replaying, boardVars, treeVars
<1>5. CASE Reset
  BY <1>5, <1>a DEF Reset, Goto, TrustInv, PhaseInv, Replaying, boardVars
<1>6. CASE CleanTree
  BY <1>6, <1>a DEF CleanTree, Goto, TrustInv, Replaying, boardVars
<1>7. CASE StartApply
  BY <1>7, <1>a DEF StartApply, Applied, Goto, End, TrustInv, Replaying, boardVars, treeVars
<1>8. CASE Am
  BY <1>8, <1>a DEF Am, TrustInv, Replaying, boardVars, histVars
<1>9. CASE AmDone
  <2>1. CASE cmd = "check"
    BY <1>9, <1>a, <2>1 DEF AmDone, Goto, TrustInv, Replaying, boardVars, treeVars
  <2>2. CASE cmd = "setup"
    BY <1>9, <2>2 DEF AmDone, Applied, Goto, TrustInv, Replaying
  <2>3. CASE cmd = "apply"
    BY <1>9, <2>3 DEF AmDone, TrustInv
  <2> QED
    BY <1>9, <1>a, <2>1, <2>2, <2>3 DEF AmDone, PhaseInv
<1>10. CASE Rollback
  BY <1>10, <1>a DEF Rollback, End, TrustInv, Replaying, boardVars
<1>11. CASE Record
  <2> SUFFICES ASSUME calm PROVE TrustInv'
    BY <1>11 DEF Record, TrustInv
  <2>1. Exact /\ digest = SeriesDigest /\ cmd = "setup"
    BY <1>11, <1>a DEF Record, ReplayInv, PhaseInv
  <2>2. kept'.base = pin /\ kept'.patches = Series
    BY <1>11, <2>1 DEF Record, SeriesDigest
  <2> QED
    BY <1>11, <2>1, <2>2 DEF Record, End, TrustInv, Replaying, Exact, boardVars, treeVars
<1>12. CASE Break
  <2>1. CASE CutFetch
    BY <1>12, <2>1, <1>a DEF Break, CutFetch, End, TrustInv, Replaying, boardVars
  <2>2. CASE CutDriver
    BY <1>12, <2>2, <1>a DEF Break, CutDriver, End, TrustInv, Replaying, boardVars
  <2>3. CASE CutAm
    BY <1>12, <2>3 DEF CutAm, TrustInv
  <2>4. CASE CutBetween
    BY <1>12, <2>4, <1>a DEF Break, CutBetween, End, TrustInv, Replaying, boardVars
  <2> QED
    BY <1>12, <2>1, <2>2, <2>3, <2>4 DEF Break
<1>13. CASE \/ \E p \in Patches, v \in Texts : EditPatch(p, v)
            \/ \E l \in Lists : EditSeries(l)
            \/ Work
  BY <1>13, <1>a DEF EditPatch, EditSeries, Work, Change, TrustInv, Replaying,
     treeVars, procVars, boardVars
<1>14. CASE \E r \in Pins : Repin(r)
  BY <1>14 DEF Repin, TrustInv
<1>15. CASE Refetch
  BY <1>15, <1>a DEF Refetch, Change, TrustInv, Replaying, procVars, boardVars
<1>16. CASE ForgeClean
  BY <1>16 DEF ForgeClean, TrustInv
<1>17. CASE UNCHANGED vars
  BY <1>17, <1>a DEF vars, TrustInv, Replaying, treeVars, procVars, histVars, boardVars
<1> QED
  BY <1>1, <1>2, <1>3, <1>4, <1>5, <1>6, <1>7, <1>8, <1>9, <1>10, <1>11, <1>12,
     <1>13, <1>14, <1>15, <1>16, <1>17 DEF Next, Forge

\* The digest, the moved HEAD and the trust together fix the tree.
LEMMA SkipIsExact ==
  ASSUME StateOK, TrustInv
  PROVE  SkipSound
<1> SUFFICES ASSUME trust, ~Replaying, HasSeries, tree # NoTree,
                    kept = SeriesDigest, ~Clean(tree, pin)
             PROVE  Exact
  BY DEF SkipSound
<1>1. kept # NoDigest
  BY SeriesType, NoneIsNone
<1>2. tree = [at |-> pin, applied |-> kept.patches]
  BY <1>1 DEF TrustInv, Told
<1> QED
  BY <1>2 DEF SeriesDigest, Exact

\* A setup that ends well ends with the series.
LEMMA DeliverStep ==
  ASSUME SetupInv, [Next]_vars
  PROVE  SetupDelivers'
<1>a. PhaseInv /\ StateOK /\ TrustInv /\ ReplayInv /\ SetupDelivers
  BY DEF SetupInv, TypeOK
<1> USE DEF SetupDelivers, SetupDone
<1>1. CASE \E c \in Commands, f \in Forcible : Start(c, f)
  BY <1>1 DEF Start, FirstPhase
<1>2. CASE Fetch \/ Reset \/ CleanTree
  BY <1>2, <1>a DEF Fetch, Reset, CleanTree, Goto, PhaseInv
<1>3. CASE Driver
  BY <1>3, <1>a DEF Driver, AfterDriver, Goto, End, PhaseInv
<1>4. CASE Check
  <2> SUFFICES ASSUME HasSeries, outcome' = "done", trust
               PROVE  Exact'
    BY <1>4 DEF Check, HasSeries, boardVars
  <2>1. SkipGuard
    BY <1>4, <1>a DEF Check, Goto, End, PhaseInv
  <2>2. Exact
    BY <1>4, <1>a, <2>1, SkipIsExact DEF SkipSound, SkipGuard, PhaseInv, Replaying, Check
  <2> QED
    BY <1>4, <2>2 DEF Check, Exact, Series, HasSeries, boardVars, treeVars
<1>5. CASE StartApply \/ AmDone
  BY <1>5, <1>a DEF StartApply, AmDone, Applied, Goto, End, PhaseInv
<1>6. CASE Am
  BY <1>6, <1>a DEF Am, PhaseInv, histVars
<1>7. CASE Rollback
  BY <1>7, <1>a DEF Rollback, End, PhaseInv
<1>8. CASE Record
  <2> SUFFICES ASSUME calm PROVE Exact'
    BY <1>8 DEF Record
  <2>1. Exact
    BY <1>8, <1>a DEF Record, ReplayInv, PhaseInv
  <2> QED
    BY <1>8, <2>1 DEF Record, Exact, Series, HasSeries, boardVars, treeVars
<1>9. CASE Break
  BY <1>9 DEF Break, End
<1>10. CASE \/ \E p \in Patches, v \in Texts : EditPatch(p, v)
            \/ \E l \in Lists : EditSeries(l)
            \/ \E r \in Pins : Repin(r)
            \/ Refetch \/ Work \/ ForgeClean
  BY <1>10 DEF EditPatch, EditSeries, Repin, Refetch, Work, ForgeClean, Change
<1>11. CASE UNCHANGED vars
  BY <1>11, <1>a DEF vars, Exact, Series, HasSeries, boardVars, treeVars, procVars, histVars
<1> QED
  BY <1>1, <1>2, <1>3, <1>4, <1>5, <1>6, <1>7, <1>8, <1>9, <1>10, <1>11 DEF Next, Forge

\* A failed apply and a dry run leave HEAD where it was.
LEMMA RollbackStep ==
  ASSUME SetupInv, [Next]_vars
  PROVE  RollsBack'
<1>a. PhaseInv /\ StateOK /\ ReplayInv /\ RollsBack
  BY DEF SetupInv, TypeOK
<1> USE DEF RollsBack
<1>1. CASE \E c \in Commands, f \in Forcible : Start(c, f)
  BY <1>1 DEF Start, FirstPhase
<1>2. CASE Fetch \/ Reset \/ CleanTree
  BY <1>2, <1>a DEF Fetch, Reset, CleanTree, Goto, PhaseInv
<1>3. CASE Driver
  BY <1>3, <1>a DEF Driver, AfterDriver, Goto, End, PhaseInv
<1>4. CASE Check
  BY <1>4, <1>a DEF Check, Goto, End, PhaseInv, boardVars, treeVars
<1>5. CASE StartApply
  BY <1>5, <1>a DEF StartApply, Applied, Goto, End, PhaseInv, boardVars, treeVars
<1>6. CASE Am
  BY <1>6, <1>a DEF Am, PhaseInv, histVars
<1>7. CASE AmDone
  BY <1>7, <1>a DEF AmDone, Applied, Goto, End, PhaseInv
<1>8. CASE Rollback
  BY <1>8, <1>a DEF Rollback, End, PhaseInv, ReplayInv, Clean, boardVars
<1>9. CASE Record \/ Break
  BY <1>9, <1>a DEF Record, Break, End, PhaseInv
<1>10. CASE \/ \E p \in Patches, v \in Texts : EditPatch(p, v)
            \/ \E l \in Lists : EditSeries(l)
            \/ \E r \in Pins : Repin(r)
            \/ Refetch \/ Work \/ ForgeClean
  BY <1>10 DEF EditPatch, EditSeries, Repin, Refetch, Work, ForgeClean, Change
<1>11. CASE UNCHANGED vars
  BY <1>11, <1>a DEF vars, Clean, boardVars, treeVars, procVars, histVars
<1> QED
  BY <1>1, <1>2, <1>3, <1>4, <1>5, <1>6, <1>7, <1>8, <1>9, <1>10, <1>11 DEF Next, Forge

\* The driver stays in the tree through the replay.
LEMMA DropStep ==
  ASSUME SetupInv, [Next]_vars
  PROVE  DropInv' /\ DriverStays'
<1>a. PhaseInv /\ StateOK /\ FlagsOK /\ DropInv /\ DriverStays
  BY DEF SetupInv, TypeOK
<1> USE DEF DropInv, DriverStays, SetupDone
<1>1. CASE \E c \in Commands, f \in Forcible : Start(c, f)
  <2>1. PICK c \in Commands, f \in Forcible : Start(c, f)
    BY <1>1
  <2>2. cmd' = c /\ outcome' = "none" /\ phase' \in {"fetch", "start"}
        /\ (phase' = "start" => c # "setup") /\ UNCHANGED <<treeVars, snag>>
    BY <2>1 DEF Start, FirstPhase
  <2> QED
    BY <1>a, <2>2 DEF treeVars
<1>2. CASE Fetch
  BY <1>2, <1>a DEF Fetch, Goto, PhaseInv, treeVars
<1>3. CASE Driver
  BY <1>3, <1>a DEF Driver, AfterDriver, Goto, End, PhaseInv
<1>4. CASE Check
  BY <1>4, <1>a DEF Check, Goto, End, PhaseInv, HasSeries, boardVars, treeVars
<1>5. CASE Reset
  BY <1>5, <1>a DEF Reset, Goto, PhaseInv
<1>6. CASE CleanTree
  BY <1>6, <1>a DEF CleanTree, CleanWorktree, Goto, PhaseInv
<1>7. CASE StartApply
  BY <1>7, <1>a DEF StartApply, Applied, Goto, End, PhaseInv, treeVars
<1>8. CASE Am
  BY <1>8, <1>a DEF Am, PhaseInv, histVars
<1>9. CASE AmDone
  BY <1>9, <1>a DEF AmDone, Applied, Goto, End, PhaseInv, treeVars
<1>10. CASE Rollback
  BY <1>10, <1>a DEF Rollback, CleanWorktree, End, PhaseInv
<1>11. CASE Record
  BY <1>11, <1>a DEF Record, End, PhaseInv, treeVars
<1>12. CASE Break
  BY <1>12, <1>a DEF Break, CutFetch, CutDriver, CutAm, CutBetween, End
<1>13. CASE \/ \E p \in Patches, v \in Texts : EditPatch(p, v)
            \/ \E l \in Lists : EditSeries(l)
            \/ \E r \in Pins : Repin(r)
            \/ Refetch \/ Work \/ ForgeClean
  BY <1>13, <1>a DEF EditPatch, EditSeries, Repin, Refetch, Work, ForgeClean, Change,
     treeVars, procVars
<1>14. CASE UNCHANGED vars
  BY <1>14, <1>a DEF vars, HasSeries, boardVars, treeVars, procVars, histVars
<1> QED
  BY <1>1, <1>2, <1>3, <1>4, <1>5, <1>6, <1>7, <1>8, <1>9, <1>10, <1>11, <1>12,
     <1>13, <1>14 DEF Next, Forge

LEMMA SetupInit == Init => SetupInv
<1> SUFFICES ASSUME Init PROVE SetupInv
  OBVIOUS
<1>1. FlagsOK
  BY DEF Init, FlagsOK
<1>2. StateOK
  <2>1. text \in [Patches -> Texts] /\ todo \in Seq(Patches)
    BY SetupConstants DEF Init, Texts
  <2> QED
    BY <2>1 DEF Init, StateOK
<1>3. PhaseInv /\ TrustInv /\ ReplayInv /\ DropInv
  BY DEF Init, PhaseInv, TrustInv, ReplayInv, DropInv
<1>4. SetupDelivers /\ RollsBack /\ DriverStays
  BY DEF Init, SetupDelivers, RollsBack, DriverStays, SetupDone
<1> QED
  BY <1>1, <1>2, <1>3, <1>4 DEF SetupInv, TypeOK

LEMMA SetupStep == SetupInv /\ [Next]_vars => SetupInv'
<1> SUFFICES ASSUME SetupInv, [Next]_vars PROVE SetupInv'
  OBVIOUS
<1>1. FlagsOK' /\ StateOK'
  BY FlagsStep, StateStep DEF SetupInv, TypeOK
<1>2. PhaseInv' /\ TrustInv' /\ ReplayInv'
  BY PhaseStep, TrustStep, ReplayStep
<1>3. SetupDelivers' /\ RollsBack' /\ DropInv' /\ DriverStays'
  BY DeliverStep, RollbackStep, DropStep
<1> QED
  BY <1>1, <1>2, <1>3 DEF SetupInv, TypeOK

\* The conjuncts above hold in every reachable state of every instance.
THEOREM SetupInvariant == Spec => []SetupInv
BY SetupInit, SetupStep, PTL DEF Spec

\* The state keeps its shape.
THEOREM SetupTypes == Spec => []TypeOK
<1>1. SetupInv => TypeOK
  BY DEF SetupInv
<1> QED
  BY <1>1, SetupInvariant, PTL

\* The skip guard of _apply_series never skips a tree that is not the pin plus
\* the series as it stands, as long as the kept digest can be trusted.
THEOREM SkipIsSound == Spec => []SkipSound
<1>1. SetupInv => SkipSound
  BY SkipIsExact DEF SetupInv, TypeOK
<1> QED
  BY <1>1, SetupInvariant, PTL

\* A setup that reports success delivers the pin with the whole series, in order.
THEOREM SetupIsExact == Spec => []SetupDelivers
<1>1. SetupInv => SetupDelivers
  BY DEF SetupInv
<1> QED
  BY <1>1, SetupInvariant, PTL

\* A failed apply, and a dry run, put HEAD back and leave no `git am` session.
THEOREM FailureRollsBack == Spec => []RollsBack
<1>1. SetupInv => RollsBack
  BY DEF SetupInv
<1> QED
  BY <1>1, SetupInvariant, PTL

\* The driver dropped before the replay survives its reset and clean.
THEOREM DriverSurvives == Spec => []DriverStays
<1>1. SetupInv => DriverStays
  BY DEF SetupInv
<1> QED
  BY <1>1, SetupInvariant, PTL
=============================================================================
