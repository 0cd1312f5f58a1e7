-------------------------- MODULE FailureAnalysis ---------------------------
(***************************************************************************)
(* StacktraceParser and FailureAnalyzer of orchestration/self_healing.py:  *)
(* from the output of a failed run to the signature it is counted under.   *)
(*                                                                         *)
(* An output keeps what the analyzer looks at: the exception type of its   *)
(* last exception line ("" if there is none), the phrases it contains, the *)
(* last frame, and the message as fixed text with the numbers in it.       *)
(***************************************************************************)
EXTENDS Naturals

CONSTANT Outputs  \* failure outputs

Phrases == {"timed out", "assert failed", "ruff"}

ASSUME OutputsAssumption ==
  Outputs \subseteq [exc : STRING, phrases : SUBSET Phrases,
                     location : STRING, text : STRING, number : Nat]

ExcCategory ==
  [SyntaxError         |-> "syntax",
   IndentationError    |-> "syntax",
   ModuleNotFoundError |-> "dependency",
   ImportError         |-> "import",
   AssertionError      |-> "assertion",
   TimeoutError        |-> "timeout"]

\* The exception type decides; then the phrases, in this order.
Categorize(o) ==
  CASE o.exc \in DOMAIN ExcCategory   -> ExcCategory[o.exc]
    [] o.exc \notin DOMAIN ExcCategory ->
         IF "timed out" \in o.phrases THEN "timeout"
         ELSE IF "assert failed" \in o.phrases THEN "assertion"
         ELSE IF "ruff" \in o.phrases THEN "lint"
         ELSE IF o.exc # "" THEN "runtime" ELSE "unknown"

Deterministic == {"lint", "dependency"}

\* The key of a failure: numbers of the message are replaced, the line of the
\* last frame is not.
SignatureOf(o) ==
  [category |-> Categorize(o),
   exc      |-> IF o.exc # "" THEN o.exc ELSE Categorize(o),
   location |-> o.location,
   text     |-> o.text]

Signatures == {SignatureOf(o) : o \in Outputs}
=============================================================================
