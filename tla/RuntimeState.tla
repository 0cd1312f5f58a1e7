---------------------------- MODULE RuntimeState ----------------------------
(***************************************************************************)
(* RuntimeStateStore of runtime/state.py: processes that update            *)
(* SYSTEM_STATE.json. An update loads the document, changes it, writes a   *)
(* temporary file, and renames that over the document. No lock is held     *)
(* between the load and the rename; a process may be killed at any point,  *)
(* and a power loss may undo a rename that has not reached the disk.       *)
(***************************************************************************)
EXTENDS Naturals, FiniteSets

CONSTANTS
  Updaters,    \* processes calling update
  Prompts,     \* prompt numbers they mark
  Phases,      \* RuntimePhase
  FirstPhase,  \* "BOOTSTRAPPING"
  MaxUpdates,  \* bound on the updates begun
  MaxCrashes,  \* bound on processes killed and power losses
  Absent,      \* there is no file
  Partial      \* a file that is no document

ASSUME RuntimeStateAssumption ==
  /\ IsFiniteSet(Updaters)
  /\ Prompts \subseteq Nat \ {0}
  /\ FirstPhase \in Phases
  /\ MaxUpdates \in Nat /\ MaxCrashes \in Nat

\* The RuntimeState model. Lists are kept sorted and without duplicates, so
\* they are sets here; updated_at and the constant fields are left out.
Document == [current   : {1} \cup {p + 1 : p \in Prompts},
             completed : SUBSET Prompts,
             failed    : SUBSET Prompts,
             phase     : Phases]

NewDocument == [current |-> 1, completed |-> {}, failed |-> {},
                phase |-> FirstPhase]

ASSUME FilesAssumption ==
  Absent \notin Document /\ Partial \notin Document /\ Absent # Partial

VARIABLES
  file,     \* SYSTEM_STATE.json as processes see it
  durable,  \* as it is after a power loss
  renames,  \* renames since then
  upc,      \* how far an update has come
  ubase,    \* the file it loaded
  udoc,     \* the document it is saving
  stray,    \* temporary files nobody owns
  crashes,  \* processes killed, and power losses
  acked,    \* ghost: prompts an update returned as completed
  stale,    \* ghost: a rename replaced a file its process had not loaded
  undone,   \* ghost: a power loss undid a rename
  begun

vars == <<file, durable, renames, upc, ubase, udoc, stray, crashes, acked, stale,
          undone, begun>>

UpdatePc == {"idle", "loaded", "writing", "written"}

Init ==
  /\ file = Absent
  /\ durable = Absent
  /\ renames = 0
  /\ upc = [u \in Updaters |-> "idle"]
  /\ ubase = [u \in Updaters |-> Absent]
  /\ udoc = [u \in Updaters |-> NewDocument]
  /\ stray = 0
  /\ crashes = 0
  /\ acked = {}
  /\ stale = FALSE
  /\ undone = FALSE
  /\ begun = 0

\* What load returns for a file that can be read.
Loaded(f) == IF f = Absent THEN NewDocument ELSE f

MarkCompleted(d, prompt) ==
  [d EXCEPT !.completed = @ \cup {prompt}, !.failed = @ \ {prompt},
            !.current = IF @ < prompt + 1 THEN prompt + 1 ELSE @]

\* Mutant of MarkFailed: what failed is not completed.
MarkFailedOnly(d, prompt) ==
  [d EXCEPT !.failed = @ \cup {prompt}, !.completed = @ \ {prompt}]

\* A prompt may be completed and failed.
MarkFailed(d, prompt) == [d EXCEPT !.failed = @ \cup {prompt}]

Transition(d, phase) == [d EXCEPT !.phase = phase]

\* What an update may make of a document.
Mutations(d) ==
  {MarkCompleted(d, p) : p \in Prompts} \cup {MarkFailed(d, p) : p \in Prompts}
    \cup {Transition(d, phase) : phase \in Phases}

Goto(u, pc) == upc' = [upc EXCEPT ![u] = pc]

\* load and mutate.
Load(u) ==
  /\ upc[u] = "idle" /\ begun < MaxUpdates
  /\ file # Partial
  /\ \E d \in Mutations(Loaded(file)) : udoc' = [udoc EXCEPT ![u] = d]
  /\ ubase' = [ubase EXCEPT ![u] = file]
  /\ Goto(u, "loaded")
  /\ begun' = begun + 1
  /\ UNCHANGED <<file, durable, renames, stray, crashes, acked, stale, undone>>

\* Mutant of OpenTemp: the document is written where it is read.
OpenInPlace(u) ==
  /\ upc[u] = "loaded"
  /\ file' = Partial
  /\ Goto(u, "writing")
  /\ UNCHANGED <<durable, renames, ubase, udoc, stray, crashes, acked, stale,
                 undone, begun>>

\* mkstemp, in the directory of the file: from here until the rename the
\* update owns a temporary file.
OpenTemp(u) ==
  /\ upc[u] = "loaded"
  /\ Goto(u, "writing")
  /\ UNCHANGED <<file, durable, renames, ubase, udoc, stray, crashes, acked, stale,
                 undone, begun>>

\* write, flush, fsync.
Write(u) ==
  /\ upc[u] = "writing"
  /\ Goto(u, "written")
  /\ UNCHANGED <<file, durable, renames, ubase, udoc, stray, crashes, acked, stale,
                 undone, begun>>

\* os.replace; save returns the document.
Replace(u) ==
  /\ upc[u] = "written"
  /\ file' = udoc[u]
  /\ renames' = renames + 1
  /\ acked' = acked \cup udoc[u].completed
  /\ stale' = (stale \/ ubase[u] # file)
  /\ Goto(u, "idle")
  /\ UNCHANGED <<durable, ubase, udoc, stray, crashes, undone, begun>>

\* A step raises: the temporary file, if there is one, is unlinked.
Fail(u) ==
  /\ upc[u] # "idle"
  /\ Goto(u, "idle")
  /\ UNCHANGED <<file, durable, renames, ubase, udoc, stray, crashes, acked, stale,
                 undone, begun>>

\* The process is killed; no handler runs.
Kill(u) ==
  /\ upc[u] # "idle" /\ crashes < MaxCrashes
  /\ crashes' = crashes + 1
  /\ stray' = IF upc[u] = "loaded" THEN stray ELSE stray + 1
  /\ Goto(u, "idle")
  /\ UNCHANGED <<file, durable, renames, ubase, udoc, acked, stale, undone, begun>>

\* The file system has the last rename on disk; save does not wait for it.
Flush ==
  /\ renames > 0
  /\ renames' = 0
  /\ durable' = file
  /\ UNCHANGED <<file, upc, ubase, udoc, stray, crashes, acked, stale, undone,
                 begun>>

\* All processes end; the file is the one on disk, whose content was synced
\* before it was renamed. Temporary files stay, and those of the renames that
\* are undone are back.
PowerLoss ==
  LET owned == {u \in Updaters : upc[u] \in {"writing", "written"}} IN
  /\ crashes < MaxCrashes
  /\ crashes' = crashes + 1
  /\ file' = durable
  /\ renames' = 0
  /\ undone' = (undone \/ renames > 0)
  /\ stray' = stray + Cardinality(owned) + renames
  /\ upc' = [u \in Updaters |-> "idle"]
  /\ UNCHANGED <<durable, ubase, udoc, acked, stale, begun>>

Next ==
  \/ \E u \in Updaters : \/ Load(u) \/ OpenTemp(u) \/ Write(u) \/ Replace(u)
                         \/ Fail(u) \/ Kill(u)
  \/ Flush
  \/ PowerLoss

Spec == Init /\ [][Next]_vars

-----------------------------------------------------------------------------

\* The types; the current prompt is the first or follows one that was marked.
TypeOK ==
  /\ file \in Document \cup {Absent, Partial}
  /\ durable \in Document \cup {Absent, Partial}
  /\ renames \in Nat
  /\ upc \in [Updaters -> UpdatePc]
  /\ ubase \in [Updaters -> Document \cup {Absent, Partial}]
  /\ udoc \in [Updaters -> Document]
  /\ stray \in Nat
  /\ crashes \in Nat
  /\ acked \subseteq Prompts
  /\ stale \in BOOLEAN
  /\ undone \in BOOLEAN
  /\ begun \in Nat

Sound(d) == \A p \in d.completed : p < d.current

\* Whatever overlaps and whoever is killed, the file a reader opens, now or
\* after a power loss, is no document half written, and every completed prompt
\* of it comes before the current one: a restart resumes after all of them.
ReadersSeeWholeDocuments ==
  \A f \in {file, durable} \ {Absent} : f # Partial /\ Sound(f)

\* A prompt that update returned as completed is completed in the file, unless
\* an overlapping update wrote over it or a power loss undid its rename.
CompletionsKept ==
  ~stale /\ ~undone => acked \subseteq Loaded(file).completed

\* Only a process killed while it writes leaves its temporary file, and a
\* power loss those of all processes and of the renames it undid.
StrayBounded == ~undone => stray <= crashes * Cardinality(Updaters)
=============================================================================
