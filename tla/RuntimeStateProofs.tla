------------------------- MODULE RuntimeStateProofs -------------------------
(***************************************************************************)
(* Proofs about RuntimeState, for any number of processes and updates.     *)
(* The invariant says of an update under way that its document is sound    *)
(* and keeps the completions of the file it loaded.                        *)
(***************************************************************************)
EXTENDS RuntimeState, FiniteSetTheorems, TLAPS

\* What update saves is made from what it loaded.
UpdatesExtend ==
  \A u \in Updaters :
    /\ Sound(udoc[u])
    /\ ubase[u] # Partial
    /\ upc[u] # "idle"
         => Loaded(ubase[u]).completed \subseteq udoc[u].completed

\* Without a rename since, the file on disk is the file.
Flushed == renames = 0 => durable = file

IInv ==
  /\ TypeOK /\ Flushed /\ UpdatesExtend
  /\ ReadersSeeWholeDocuments /\ CompletionsKept

-----------------------------------------------------------------------------
(* The operators on documents.                                              *)

\* mark_completed, mark_failed and transition make documents of documents,
\* keep them sound, and keep what is completed.
LEMMA MutationsExtend ==
  ASSUME NEW d \in Document, Sound(d), NEW e \in Mutations(d)
  PROVE  e \in Document /\ Sound(e) /\ d.completed \subseteq e.completed
<1> DEFINE Good(x) == x \in Document /\ Sound(x) /\ d.completed \subseteq x.completed
<1>1. ASSUME NEW p \in Prompts
      PROVE  Good(MarkCompleted(d, p))
  <2> DEFINE m == MarkCompleted(d, p)
  <2>1. p \in Nat /\ d.current \in Nat
    BY RuntimeStateAssumption DEF Document
  <2>2. /\ m.completed = d.completed \cup {p}
        /\ m.failed = d.failed \ {p}
        /\ m.phase = d.phase
        /\ m.current = IF d.current < p + 1 THEN p + 1 ELSE d.current
    BY DEF MarkCompleted, Document
  <2>3. m \in Document
    BY DEF MarkCompleted, Document
  <2>4. ASSUME NEW q \in m.completed
        PROVE  q < m.current
    <3>1. CASE q = p
      BY <2>1, <2>2, <3>1
    <3>2. CASE q \in d.completed
      <4>1. q < d.current /\ q \in Nat
        BY <3>2, RuntimeStateAssumption DEF Sound, Document
      <4> QED BY <2>1, <2>2, <4>1
    <3> QED BY <2>2, <3>1, <3>2
  <2> QED BY <2>2, <2>3, <2>4 DEF Sound
<1>2. ASSUME NEW p \in Prompts
      PROVE  Good(MarkFailed(d, p))
  BY DEF MarkFailed, Document, Sound
<1>3. ASSUME NEW phase \in Phases
      PROVE  Good(Transition(d, phase))
  BY DEF Transition, Document, Sound
<1> QED BY <1>1, <1>2, <1>3 DEF Mutations

LEMMA NewDocumentSound == NewDocument \in Document /\ Sound(NewDocument)
BY RuntimeStateAssumption DEF NewDocument, Document, Sound

\* load returns a sound document of a file that is no partial one.
LEMMA LoadedSound ==
  ASSUME NEW f \in Document \cup {Absent, Partial}, f # Partial,
         f # Absent => Sound(f)
  PROVE  Loaded(f) \in Document /\ Sound(Loaded(f))
BY NewDocumentSound DEF Loaded

-----------------------------------------------------------------------------

LEMMA InitIInv == Init => IInv
<1> SUFFICES ASSUME Init PROVE IInv
  OBVIOUS
<1>1. TypeOK
  BY NewDocumentSound DEF Init, TypeOK, UpdatePc
<1>2. UpdatesExtend
  BY NewDocumentSound, FilesAssumption DEF Init, UpdatesExtend
<1>3. ReadersSeeWholeDocuments
  BY DEF Init, ReadersSeeWholeDocuments
<1>4. CompletionsKept
  BY DEF Init, CompletionsKept
<1>5. Flushed
  BY DEF Init, Flushed
<1> QED BY <1>1, <1>2, <1>3, <1>4, <1>5 DEF IInv

\* An update whose position alone changes, to one that is not later than
\* loaded or that follows it, has nothing to show.
LEMMA OnlyPositions ==
  ASSUME IInv,
         UNCHANGED <<file, durable, renames, ubase, udoc, acked, stale, undone>>,
         upc' \in [Updaters -> UpdatePc],
         \A u \in Updaters : upc'[u] # "idle" => upc[u] # "idle"
  PROVE  Flushed' /\ UpdatesExtend' /\ ReadersSeeWholeDocuments' /\ CompletionsKept'
<1>1. UpdatesExtend'
  BY DEF IInv, UpdatesExtend
<1>2. ReadersSeeWholeDocuments' /\ CompletionsKept' /\ Flushed'
  BY DEF IInv, ReadersSeeWholeDocuments, CompletionsKept, Flushed
<1> QED BY <1>1, <1>2

LEMMA NextIInv == IInv /\ [Next]_vars => IInv'
<1> SUFFICES ASSUME IInv, [Next]_vars PROVE IInv'
  OBVIOUS
<1> USE DEF IInv, TypeOK, UpdatePc
<1>1. ASSUME NEW u \in Updaters, Load(u)
      PROVE  IInv'
  <2>1. PICK d \in Mutations(Loaded(file)) : udoc' = [udoc EXCEPT ![u] = d]
    BY <1>1 DEF Load
  <2>2. Loaded(file) \in Document /\ Sound(Loaded(file)) /\ file # Partial
    <3>1. file # Partial
      BY FilesAssumption DEF ReadersSeeWholeDocuments
    <3>2. file # Absent => Sound(file)
      BY DEF ReadersSeeWholeDocuments
    <3> QED BY <3>1, <3>2, LoadedSound
  <2>3. d \in Document /\ Sound(d) /\ Loaded(file).completed \subseteq d.completed
    BY <2>2, MutationsExtend
  <2>4. /\ upc' = [upc EXCEPT ![u] = "loaded"]
        /\ ubase' = [ubase EXCEPT ![u] = file]
        /\ begun' = begun + 1
        /\ UNCHANGED <<file, durable, renames, stray, crashes, acked, stale, undone>>
    BY <1>1 DEF Load, Goto
  <2>5. TypeOK'
    BY <2>1, <2>3, <2>4
  <2>6. UpdatesExtend'
    BY <2>1, <2>2, <2>3, <2>4 DEF UpdatesExtend
  <2>7. ReadersSeeWholeDocuments' /\ CompletionsKept' /\ Flushed'
    BY <2>4 DEF ReadersSeeWholeDocuments, CompletionsKept, Flushed
  <2> QED BY <2>5, <2>6, <2>7
<1>2. ASSUME NEW u \in Updaters, OpenTemp(u) \/ Write(u) \/ Fail(u)
      PROVE  IInv'
  <2>1. /\ upc[u] # "idle"
        /\ \E pc \in UpdatePc : upc' = [upc EXCEPT ![u] = pc]
        /\ UNCHANGED <<file, durable, renames, ubase, udoc, stray, crashes,
                       acked, stale, undone, begun>>
    BY <1>2 DEF OpenTemp, Write, Fail, Goto
  <2>2. TypeOK' /\ \A v \in Updaters : upc'[v] # "idle" => upc[v] # "idle"
    BY <2>1
  <2> QED BY <2>1, <2>2, OnlyPositions
<1>3. ASSUME NEW u \in Updaters, Replace(u)
      PROVE  IInv'
  <2>1. /\ upc[u] # "idle"
        /\ upc' = [upc EXCEPT ![u] = "idle"]
        /\ file' = udoc[u]
        /\ renames' = renames + 1
        /\ acked' = acked \cup udoc[u].completed
        /\ stale' = (stale \/ ubase[u] # file)
        /\ UNCHANGED <<durable, ubase, udoc, stray, crashes, undone, begun>>
    BY <1>3 DEF Replace, Goto
  <2>2. udoc[u] \in Document /\ udoc[u] # Partial /\ udoc[u] # Absent
    BY FilesAssumption
  <2>3. TypeOK'
    <3>1. acked' \subseteq Prompts
      BY <2>1, <2>2 DEF Document
    <3> QED BY <2>1, <2>2, <3>1
  <2>4. UpdatesExtend'
    BY <2>1 DEF UpdatesExtend
  <2>5. ReadersSeeWholeDocuments'
    BY <2>1, <2>2 DEF ReadersSeeWholeDocuments, UpdatesExtend
  <2>6. CompletionsKept'
    <3> SUFFICES ASSUME ~stale', ~undone'
                 PROVE  acked' \subseteq Loaded(file').completed
      BY DEF CompletionsKept
    <3>1. ubase[u] = file /\ ~stale /\ ~undone
      BY <2>1
    <3>2. acked \subseteq udoc[u].completed
      BY <2>1, <3>1 DEF CompletionsKept, UpdatesExtend
    <3> QED BY <2>1, <2>2, <3>2 DEF Loaded
  <2>7. Flushed'
    BY <2>1 DEF Flushed
  <2> QED BY <2>3, <2>4, <2>5, <2>6, <2>7
<1>4. ASSUME NEW u \in Updaters, Kill(u)
      PROVE  IInv'
  <2>1. /\ upc' = [upc EXCEPT ![u] = "idle"]
        /\ crashes' = crashes + 1
        /\ stray' = IF upc[u] = "loaded" THEN stray ELSE stray + 1
        /\ UNCHANGED <<file, durable, renames, ubase, udoc, acked, stale, undone, begun>>
    BY <1>4 DEF Kill, Goto
  <2>2. TypeOK' /\ \A v \in Updaters : upc'[v] # "idle" => upc[v] # "idle"
    BY <2>1
  <2> QED BY <2>1, <2>2, OnlyPositions
<1>5. ASSUME Flush
      PROVE  IInv'
  <2>1. TypeOK'
    BY <1>5 DEF Flush
  <2>2. UpdatesExtend' /\ CompletionsKept' /\ Flushed'
    BY <1>5 DEF Flush, UpdatesExtend, CompletionsKept, Flushed
  <2>3. ReadersSeeWholeDocuments'
    BY <1>5 DEF Flush, ReadersSeeWholeDocuments
  <2> QED BY <2>1, <2>2, <2>3
<1>6. ASSUME PowerLoss
      PROVE  IInv'
  <2>1. Cardinality({u \in Updaters : upc[u] \in {"writing", "written"}}) \in Nat
    BY RuntimeStateAssumption, FS_Subset, FS_CardinalityType
  <2>2. TypeOK'
    BY <1>6, <2>1 DEF PowerLoss
  <2>3. UpdatesExtend'
    BY <1>6 DEF PowerLoss, UpdatesExtend
  <2>4. ReadersSeeWholeDocuments'
    BY <1>6 DEF PowerLoss, ReadersSeeWholeDocuments
  <2>5. CompletionsKept'
    <3>1. /\ undone' = (undone \/ renames > 0)
          /\ file' = durable
          /\ UNCHANGED <<acked, stale>>
      BY <1>6 DEF PowerLoss
    <3>2. CASE renames = 0
      BY <3>1, <3>2 DEF Flushed, CompletionsKept
    <3>3. CASE renames > 0
      BY <3>1, <3>3 DEF CompletionsKept
    <3> QED BY <3>2, <3>3
  <2>6. Flushed'
    BY <1>6 DEF PowerLoss, Flushed
  <2> QED BY <2>2, <2>3, <2>4, <2>5, <2>6
<1>7. CASE UNCHANGED vars
  <2>1. TypeOK'
    BY <1>7 DEF vars
  <2> QED BY <1>7, <2>1, OnlyPositions DEF vars
<1> QED BY <1>1, <1>2, <1>3, <1>4, <1>5, <1>6, <1>7 DEF Next

-----------------------------------------------------------------------------

\* The inductive invariant holds of every behaviour of the store.
THEOREM SpecIInv == Spec => []IInv
BY InitIInv, NextIInv, PTL DEF Spec

\* The state keeps its types: in particular mark_completed only ever moves
\* current_prompt to the successor of a prompt.
THEOREM TypeCorrect == Spec => []TypeOK
BY SpecIInv, PTL DEF IInv

\* However many processes update the file and die, a reader sees a whole
\* document whose completed prompts all come before the current one.
THEOREM ReadersSafe == Spec => []ReadersSeeWholeDocuments
BY SpecIInv, PTL DEF IInv

\* An acknowledged completion is lost only to an overlapping update or to a
\* power loss that undid a rename.
THEOREM AcknowledgedKept == Spec => []CompletionsKept
BY SpecIInv, PTL DEF IInv

LEMMA StrayStep ==
  ASSUME IInv, StrayBounded, [Next]_vars
  PROVE  StrayBounded'
<1> DEFINE n == Cardinality(Updaters)
<1> SUFFICES ASSUME ~undone' PROVE stray' <= crashes' * n
  BY DEF StrayBounded
<1>1. n \in Nat /\ stray \in Nat /\ crashes \in Nat /\ renames \in Nat
  BY RuntimeStateAssumption, FS_CardinalityType DEF IInv, TypeOK
<1>2. ASSUME NEW u \in Updaters, Kill(u)
      PROVE  stray' <= crashes' * n
  <2>1. n >= 1
    BY <1>1, RuntimeStateAssumption, FS_EmptySet
  <2>2. (crashes + 1) * n = crashes * n + n
    BY <1>1
  <2>3. crashes' = crashes + 1 /\ stray' <= stray + 1 /\ undone' = undone
    BY <1>1, <1>2 DEF Kill
  <2>4. stray <= crashes * n /\ crashes * n \in Nat
    BY <1>1, <2>3 DEF StrayBounded
  <2>5. stray' \in Nat
    BY <1>1, <1>2 DEF Kill
  <2> QED BY <1>1, <2>1, <2>2, <2>3, <2>4, <2>5
<1>3. ASSUME PowerLoss
      PROVE  stray' <= crashes' * n
  <2> DEFINE owned == {u \in Updaters : upc[u] \in {"writing", "written"}}
  <2>1. Cardinality(owned) \in Nat /\ Cardinality(owned) <= n
    BY RuntimeStateAssumption, FS_Subset, FS_CardinalityType
  <2>2. ~undone /\ renames = 0
    <3>1. undone' = (undone \/ renames > 0)
      BY <1>3 DEF PowerLoss
    <3>2. ~undone /\ ~(renames > 0)
      BY <3>1, Zenon
    <3> QED BY <1>1, <3>2
  <2>3. crashes' = crashes + 1 /\ stray' = stray + Cardinality(owned)
    BY <1>1, <1>3, <2>1, <2>2 DEF PowerLoss
  <2>4. stray <= crashes * n /\ crashes * n \in Nat
    BY <1>1, <2>2 DEF StrayBounded
  <2>5. (crashes + 1) * n = crashes * n + n
    BY <1>1
  <2> HIDE DEF owned, n
  <2> QED BY <1>1, <2>1, <2>3, <2>4, <2>5
<1>4. CASE UNCHANGED <<stray, crashes, undone>>
  BY <1>4 DEF StrayBounded
<1> QED
  BY <1>2, <1>3, <1>4
     DEF Next, vars, Load, OpenTemp, Write, Replace, Fail, Flush

\* Temporary files are left only by processes that were killed and by power
\* losses.
THEOREM StrayFilesBounded == Spec => []StrayBounded
<1>1. Init => StrayBounded
  <2> SUFFICES ASSUME Init PROVE StrayBounded
    OBVIOUS
  <2>1. Cardinality(Updaters) \in Nat
    BY RuntimeStateAssumption, FS_CardinalityType
  <2>2. 0 * Cardinality(Updaters) = 0
    BY <2>1
  <2> QED BY <2>2 DEF Init, StrayBounded
<1>2. IInv /\ StrayBounded /\ [Next]_vars => StrayBounded'
  BY StrayStep
<1> QED BY <1>1, <1>2, SpecIInv, PTL DEF Spec
=============================================================================
