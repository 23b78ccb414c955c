---------------------------- MODULE NodeStart_proofs ----------------------------
(***************************************************************************)
(* Proofs about the parts of a compute node's runtime (NodeStart): the     *)
(* model file (ModelArtifact), for every set of processes and any number   *)
(* of writes, the completion of a rendered prompt (PlainCompletion), for   *)
(* any number of tokenizations, the inference of one answer                *)
(* (ApiV1Inference), for every window and any number of requests, and the  *)
(* progress it publishes (ProgressPublisher), for every set of publishers. *)
(* The parts share no state: each invariant is of one part, and a step of  *)
(* the composition is a step of that part or leaves it alone.              *)
(***************************************************************************)
EXTENDS NodeStart, ListFilter_proofs, SequenceTheorems, WellFoundedInduction, TLAPS
--------------------------------------------------------------------------------
(* The parts of the composition                                            *)

\* Every part starts in one of its initial states.
LEMMA PartsStart ==
    NodeInit => Completion!Init /\ Inference!Init /\ Progress!Init
  BY DEF NodeInit

\* A step of the node is a step of the completion or leaves it alone.
LEMMA CompletionSteps == [NodeNext]_allVars => [Completion!Next]_Completion!vars
  BY DEF NodeNext, allVars, ArtifactStep, OfReadiness, CompletionStep, OfProxy, InferenceStep,
         ProgressStep, Rest, completionVars, Completion!vars

\* A step of the node is a step of the inference or leaves it alone.
LEMMA InferenceSteps == [NodeNext]_allVars => [Inference!Next]_Inference!vars
  BY DEF NodeNext, allVars, ArtifactStep, OfReadiness, CompletionStep, OfProxy, InferenceStep,
         ProgressStep, Rest, inferenceVars, Inference!vars

\* A step of the node is a step of the publishers and their worker or leaves them alone.
LEMMA ProgressSteps == [NodeNext]_allVars => [Progress!Next]_Progress!vars
  BY DEF NodeNext, allVars, ArtifactStep, OfReadiness, CompletionStep, OfProxy, InferenceStep,
         ProgressStep, Rest, progressVars, Progress!vars, Progress!worker
--------------------------------------------------------------------------------
(* ModelArtifact: the inductive invariant                                  *)

FilePinned == file # None => file.body = "pinned"

Process == [pc : {"idle", "check", "hash", "stamp", "download", "replace", "ready", "failed"},
            suspect : BOOLEAN, body : Bodies \cup {None}, touched : BOOLEAN]

\* The file and the receipt are not newer than the clock.
ArtifactTypeOK ==
    /\ clock \in Nat
    /\ file # None => file.body \in Bodies /\ file.mtime \in Nat /\ file.mtime <= clock
    /\ receipt # None => receipt.print.mtime \in Nat /\ receipt.print.mtime <= clock
    /\ ps \in [Procs -> Process]

\* What a process has verified and nobody has overwritten since is what the path holds:
\* other processes only put the pinned body there.
VerifiedOK ==
    \A p \in Procs : ~ps[p].touched =>
        /\ At(p, "hash") /\ ps[p].body = "pinned" => FilePinned
        /\ At(p, "stamp") => FilePinned

ArtifactInv == ArtifactTypeOK /\ VerifiedOK /\ ReceiptSound
--------------------------------------------------------------------------------
(* ModelArtifact: the steps                                                *)

\* One process changes.
LEMMA ProcessMoves ==
    ASSUME ps \in [Procs -> Process], NEW p \in Procs, NEW x \in Process,
           ps' = [ps EXCEPT ![p] = x]
    PROVE  ps' \in [Procs -> Process] /\ ps'[p] = x /\ \A q \in Procs : q # p => ps'[q] = ps[q]
  OBVIOUS

\* The process record with another position.
LEMMA ToProcess ==
    ASSUME ps \in [Procs -> Process], NEW p \in Procs,
           NEW l \in {"idle", "check", "hash", "stamp", "download", "replace", "ready", "failed"},
           To(p, l)
    PROVE  /\ ps' \in [Procs -> Process]
           /\ ps'[p].pc = l /\ ps'[p].body = ps[p].body /\ ps'[p].touched = ps[p].touched
           /\ \A q \in Procs : q # p => ps'[q] = ps[q]
  <1> DEFINE x == [ps[p] EXCEPT !.pc = l]
  <1>1. ps[p] \in Process
    OBVIOUS
  <1>2. x \in Process /\ x.pc = l /\ x.body = ps[p].body /\ x.touched = ps[p].touched
    BY <1>1 DEF Process
  <1>3. ps' = [ps EXCEPT ![p] = x]
    BY DEF To
  <1> HIDE DEF x
  <1> QED BY <1>2, <1>3, ProcessMoves

\* A step in which the file and the receipt stay and only p moves, to a place where what
\* it holds is as good as before.
LEMMA QuietProcess ==
    ASSUME ArtifactInv, NEW p \in Procs, UNCHANGED <<file, receipt, clock>>,
           ps' \in [Procs -> Process], \A q \in Procs : q # p => ps'[q] = ps[q],
           ~ps'[p].touched =>
              /\ ps'[p].pc = "hash" /\ ps'[p].body = "pinned" => FilePinned
              /\ ps'[p].pc = "stamp" => FilePinned
    PROVE  ArtifactInv'
  <1>1. ArtifactTypeOK'
    BY DEF ArtifactInv, ArtifactTypeOK
  <1>2. VerifiedOK'
    BY DEF ArtifactInv, VerifiedOK, FilePinned, At
  <1>3. ReceiptSound'
    BY DEF ArtifactInv, ReceiptSound, ReceiptMatches
  <1> QED BY <1>1, <1>2, <1>3 DEF ArtifactInv

\* A call starts.
LEMMA StartStep ==
    ASSUME ArtifactInv, NEW p \in Procs, Start(p)
    PROVE  ArtifactInv'
  <1>1. PICK s \in BOOLEAN : ps' = [ps EXCEPT ![p] = [Gone EXCEPT !.pc = "check", !.suspect = s]]
    BY DEF Start
  <1> DEFINE x == [Gone EXCEPT !.pc = "check", !.suspect = s]
  <1>2. x \in Process /\ x.pc = "check"
    BY DEF Gone, Process
  <1> HIDE DEF x
  <1>3. ps' = [ps EXCEPT ![p] = x] /\ UNCHANGED <<file, receipt, clock>>
    BY <1>1 DEF Start, x
  <1>4. /\ ps' \in [Procs -> Process] /\ ps'[p].pc = "check"
        /\ \A q \in Procs : q # p => ps'[q] = ps[q]
    BY <1>2, <1>3, ProcessMoves DEF ArtifactInv, ArtifactTypeOK
  <1> QED BY <1>3, <1>4, QuietProcess

\* The existing file is looked at; what is to be hashed is the file at the path.
LEMMA CheckStep ==
    ASSUME ArtifactInv, NEW p \in Procs, Check(p)
    PROVE  ArtifactInv'
  <1>1. UNCHANGED <<file, receipt, clock>> /\ ps \in [Procs -> Process]
    BY DEF Check, ArtifactInv, ArtifactTypeOK
  <1>2. CASE To(p, "download") \/ To(p, "ready")
    BY <1>1, <1>2, ToProcess, QuietProcess
  <1>3. CASE file # None /\ ps' = [ps EXCEPT ![p].pc = "hash", ![p].body = file.body]
    <2> DEFINE x == [ps[p] EXCEPT !.pc = "hash", !.body = file.body]
    <2>1. ps[p] \in Process /\ file.body \in Bodies
      BY <1>1, <1>3 DEF ArtifactInv, ArtifactTypeOK
    <2>2. x \in Process /\ x.pc = "hash" /\ x.body = file.body
      BY <2>1 DEF Process
    <2>3. ps' = [ps EXCEPT ![p] = x]
      BY <1>1, <1>3
    <2> HIDE DEF x
    <2>4. /\ ps' \in [Procs -> Process] /\ ps'[p] = x
          /\ \A q \in Procs : q # p => ps'[q] = ps[q]
      BY <1>1, <2>2, <2>3, ProcessMoves
    <2> QED BY <1>1, <2>2, <2>4, QuietProcess DEF FilePinned
  <1> QED BY <1>2, <1>3 DEF Check

\* The hash, the download and a failed replace move only the process.
LEMMA HashStep ==
    ASSUME ArtifactInv, NEW p \in Procs, Hash(p) \/ Download(p) \/ (To(p, "failed") /\ UNCHANGED <<file, receipt, clock>>)
    PROVE  ArtifactInv'
  <1>1. UNCHANGED <<file, receipt, clock>> /\ ps \in [Procs -> Process]
    BY DEF Hash, Download, ArtifactInv, ArtifactTypeOK
  <1>2. CASE To(p, "failed") \/ To(p, "replace") \/ To(p, "download")
    BY <1>1, <1>2, ToProcess, QuietProcess
  <1>3. CASE At(p, "hash") /\ ps[p].body = "pinned" /\ To(p, "stamp")
    <2>1. /\ ps' \in [Procs -> Process] /\ ps'[p].pc = "stamp" /\ ps'[p].touched = ps[p].touched
          /\ \A q \in Procs : q # p => ps'[q] = ps[q]
      BY <1>1, <1>3, ToProcess
    <2>2. ~ps[p].touched => FilePinned
      BY <1>3 DEF ArtifactInv, VerifiedOK
    <2> QED BY <1>1, <2>1, <2>2, QuietProcess
  <1> QED BY <1>2, <1>3 DEF Hash, Download

\* The receipt is written for the file at the path: the one that was verified, unless it
\* was overwritten since, and then the receipt is marked.
LEMMA StampStep ==
    ASSUME ArtifactInv, NEW p \in Procs, Stamp(p)
    PROVE  ArtifactInv'
  <1>1. /\ UNCHANGED <<file, clock>> /\ ps \in [Procs -> Process] /\ At(p, "stamp")
        /\ To(p, "ready") \/ To(p, "failed")
    BY DEF Stamp, ArtifactInv, ArtifactTypeOK
  <1>2. /\ ps' \in [Procs -> Process] /\ ps'[p].pc \in {"ready", "failed"}
        /\ \A q \in Procs : q # p => ps'[q] = ps[q]
    BY <1>1, ToProcess
  <1>3. CASE UNCHANGED receipt
    BY <1>1, <1>2, <1>3, QuietProcess
  <1>4. CASE file # None /\ receipt' = [print |-> Fingerprint(file), raced |-> ps[p].touched]
    <2>1. /\ receipt'.print = Fingerprint(file) /\ receipt'.raced = ps[p].touched
          /\ receipt'.print.mtime = file.mtime
      BY <1>4 DEF Fingerprint
    <2>2. ArtifactTypeOK'
      BY <1>1, <1>2, <1>4, <2>1 DEF ArtifactInv, ArtifactTypeOK
    <2>3. VerifiedOK'
      BY <1>1, <1>2 DEF ArtifactInv, VerifiedOK, FilePinned, At
    <2>4. ~receipt'.raced => file.body = "pinned"
      BY <1>1, <1>4, <2>1 DEF ArtifactInv, VerifiedOK, FilePinned
    <2>5. ReceiptSound'
      BY <1>1, <2>4 DEF ReceiptSound
    <2> QED BY <2>2, <2>3, <2>5 DEF ArtifactInv
  <1> QED BY <1>3, <1>4 DEF Stamp

\* The verified download takes the place of whatever is there.
LEMMA ReplaceStep ==
    ASSUME ArtifactInv, NEW p \in Procs, Replace(p)
    PROVE  ArtifactInv'
  <1>1. CASE To(p, "failed") /\ UNCHANGED <<file, clock>>
    BY <1>1, HashStep DEF Replace
  <1>2. CASE /\ clock' = clock + 1 /\ file' = [body |-> "pinned", mtime |-> clock + 1, forged |-> FALSE]
             /\ ps' = [ps EXCEPT ![p].pc = "stamp", ![p].body = None, ![p].touched = FALSE]
    <2> DEFINE x == [ps[p] EXCEPT !.pc = "stamp", !.body = None, !.touched = FALSE]
    <2>1. ps \in [Procs -> Process] /\ clock \in Nat /\ receipt' = receipt
      BY DEF Replace, ArtifactInv, ArtifactTypeOK
    <2>2. ps[p] \in Process
      BY <2>1
    <2>3. x \in Process
      BY <2>2 DEF Process
    <2>4. ps' = [ps EXCEPT ![p] = x]
      BY <1>2, <2>1
    <2> HIDE DEF x
    <2>5. ps' \in [Procs -> Process]
      BY <2>1, <2>3, <2>4, ProcessMoves
    <2>6. FilePinned' /\ file'.body = "pinned" /\ file'.mtime = clock + 1
      BY <1>2 DEF FilePinned
    <2>7. ArtifactTypeOK'
      BY <1>2, <2>1, <2>5, <2>6 DEF ArtifactInv, ArtifactTypeOK, Bodies
    <2> QED BY <2>6, <2>7 DEF ArtifactInv, VerifiedOK, ReceiptSound
  <1> QED BY <1>1, <1>2 DEF Replace

\* The process dies.
LEMMA CrashStep ==
    ASSUME ArtifactInv, NEW p \in Procs, Crash(p)
    PROVE  ArtifactInv'
  <1>1. Gone \in Process /\ Gone.pc = "idle"
    BY DEF Gone, Process
  <1>2. /\ ps' \in [Procs -> Process] /\ ps'[p].pc = "idle"
        /\ \A q \in Procs : q # p => ps'[q] = ps[q]
    BY <1>1, ProcessMoves DEF Crash, ArtifactInv, ArtifactTypeOK
  <1> QED BY <1>2, QuietProcess DEF Crash

\* The file is overwritten: it is newer than any receipt or forged, and every process that has
\* verified something is marked.
LEMMA OverwriteStep ==
    ASSUME ArtifactInv, Overwrite
    PROVE  ArtifactInv'
  <1>1. clock \in Nat /\ clock' = clock + 1 /\ UNCHANGED receipt /\ ps \in [Procs -> Process]
    BY DEF Overwrite, ArtifactInv, ArtifactTypeOK
  <1>2. /\ file' # None => file'.body \in Bodies /\ file'.mtime \in 0 .. clock + 1
        /\ file' # None /\ ~file'.forged => file'.mtime > clock
    <2>1. ASSUME NEW body \in {"corrupt", "junk"}, NEW mtime \in 0 .. clock + 1,
                 file' = [body |-> body, mtime |-> mtime, forged |-> mtime <= clock]
          PROVE  /\ file'.body = body /\ file'.mtime = mtime
                 /\ ~file'.forged => mtime > clock
      <3> DEFINE old == mtime <= clock
      <3>1. old \in BOOLEAN /\ (~old => mtime > clock)
        BY <1>1
      <3>2. file' = [body |-> body, mtime |-> mtime, forged |-> old]
        BY <2>1
      <3> HIDE DEF old
      <3>3. file'.body = body /\ file'.mtime = mtime /\ file'.forged = old
        BY <3>2
      <3> QED BY <3>1, <3>3
    <2> QED BY <2>1 DEF Overwrite, Bodies
  <1>3. ASSUME NEW p \in Procs
        PROVE  ps'[p] \in Process /\ (ps'[p].touched \/ ps'[p].pc \in {"idle", "check", "ready", "failed"})
    <2> DEFINE x == [ps[p] EXCEPT !.touched = TRUE]
    <2>1. ps[p] \in Process
      BY <1>1
    <2>2. x \in Process /\ x.touched = TRUE
      BY <2>1 DEF Process
    <2>3. ps'[p] = IF ps[p].pc \in {"idle", "check", "ready", "failed"} THEN ps[p] ELSE x
      BY DEF Overwrite
    <2> HIDE DEF x
    <2> QED BY <2>1, <2>2, <2>3
  <1>4. ps' \in [Procs -> Process]
    <2>1. ps' = [p \in Procs |-> ps'[p]]
      BY DEF Overwrite
    <2> QED BY <1>3, <2>1
  <1>5. ArtifactTypeOK'
    BY <1>1, <1>2, <1>4 DEF ArtifactInv, ArtifactTypeOK
  <1>6. VerifiedOK'
    BY <1>3 DEF VerifiedOK, At
  <1>7. ReceiptSound'
    <2>1. receipt # None => receipt.print.mtime # clock + 1
      BY <1>1 DEF ArtifactInv, ArtifactTypeOK
    <2>2. file' # None /\ ~file'.forged => Fingerprint(file').mtime = clock + 1
      <3>1. file' # None /\ ~file'.forged => file'.mtime = clock + 1
        BY <1>1, <1>2
      <3>2. Fingerprint(file').mtime = file'.mtime
        BY DEF Fingerprint
      <3> QED BY <3>1, <3>2
    <2> QED BY <1>1, <2>1, <2>2 DEF ReceiptSound, ReceiptMatches
  <1> QED BY <1>5, <1>6, <1>7 DEF ArtifactInv
--------------------------------------------------------------------------------
(* ModelArtifact: the theorem                                              *)

\* A receipt that matches the file vouches for its contents, whatever crashed, whoever
\* else downloaded and replaced the file, and however often it was overwritten; excepted
\* are a file overwritten between its hash or replacement and the stat of its receipt, and
\* one overwritten under an mtime the path had before.
THEOREM ReceiptsAreHonest == Spec => []ReceiptSound
  <1>1. Init => ArtifactInv
    <2> SUFFICES ASSUME Init PROVE ArtifactInv
      OBVIOUS
    <2>1. Gone \in Process /\ Gone.pc = "idle"
      BY DEF Gone, Process
    <2>2. file # None => file.body \in Bodies /\ file.mtime = 0
      BY DEF Init
    <2> QED BY <2>1, <2>2 DEF Init, ArtifactInv, ArtifactTypeOK, VerifiedOK, ReceiptSound, At
  <1>2. ArtifactInv /\ [Next]_vars => ArtifactInv'
    <2> SUFFICES ASSUME ArtifactInv, [Next]_vars PROVE ArtifactInv'
      OBVIOUS
    <2>1. CASE Overwrite
      BY <2>1, OverwriteStep
    <2>2. ASSUME NEW p \in Procs, Start(p) \/ Step(p) \/ Crash(p) PROVE ArtifactInv'
      BY <2>2, StartStep, CheckStep, HashStep, StampStep, ReplaceStep, CrashStep DEF Step
    <2>3. CASE UNCHANGED vars
      BY <2>3 DEF vars, ArtifactInv, ArtifactTypeOK, VerifiedOK, FilePinned, ReceiptSound, ReceiptMatches, At
    <2> QED BY <2>1, <2>2, <2>3 DEF Next
  <1>3. ArtifactInv => ReceiptSound
    BY DEF ArtifactInv
  <1> QED BY <1>1, <1>2, <1>3, PTL DEF Spec
--------------------------------------------------------------------------------
(* PlainCompletion                                                         *)

\* What stops the ladder is still known when the next attempt is considered: an answer
\* is held as the result, leaked thinking as the result or, in the later stages, as the
\* reason.
LadderInv ==
    /\ last = "valid" => result = "valid"
    /\ last = "thinking" =>
          \/ result = "thinking"
          \/ invalid = "thinking" /\ pc \notin {"render", "keyword", "positional", "call", "judge"}

\* None is not what an attempt came to.
NoneIsNoOutcome == None \notin Completion!Returned \cup Completion!Raised

\* No step of the ladder forgets what stops it.
LEMMA LadderNext == NoneIsNoOutcome /\ LadderInv /\ [Completion!Next]_Completion!vars => LadderInv'
  <1> SUFFICES ASSUME NoneIsNoOutcome, LadderInv, [Completion!Next]_Completion!vars PROVE LadderInv'
    OBVIOUS
  <1> USE DEF NoneIsNoOutcome, LadderInv, Completion!Returned, Completion!Raised
  <1>1. ASSUME NEW here \in {"keyword", "positional", "call"}, NEW cap, NEW next,
               Completion!TextStage(here, cap, next)
        PROVE  LadderInv'
    <2>1. pc = here /\ UNCHANGED invalid
      BY <1>1 DEF Completion!TextStage
    <2>2. CASE UNCHANGED <<last, result>>
      BY <2>1, <2>2
    <2>3. ASSUME NEW o \in Completion!Returned \cup Completion!Raised, Completion!Attempt(o)
          PROVE  LadderInv'
      BY <2>3 DEF Completion!Attempt
    <2> QED BY <1>1, <2>2, <2>3 DEF Completion!TextStage
  <1>2. CASE Completion!Keyword \/ Completion!Positional \/ Completion!Call
    BY <1>1, <1>2 DEF Completion!Keyword, Completion!Positional, Completion!Call
  <1>3. CASE Completion!Render
    BY <1>3 DEF Completion!Render
  <1>4. CASE Completion!Judge
    BY <1>4 DEF Completion!Judge
  <1>5. ASSUME NEW o \in Completion!Returned \cup Completion!Raised, Completion!TryIds(o),
               pc' \in {"ids", "idsPositional"}
        PROVE  LadderInv'
    BY <1>5 DEF Completion!TryIds
  <1>6. CASE Completion!Ids \/ Completion!IdsPositional
    <2>1. CASE UNCHANGED <<last, result, invalid>> /\ pc' \in {"ids", "idsPositional", "chat"}
               /\ pc \in {"ids", "idsPositional"}
      BY <2>1
    <2> QED BY <1>5, <1>6, <2>1 DEF Completion!Ids, Completion!IdsPositional
  <1>7. CASE Completion!Chat
    <2>1. pc' = "report" /\ pc = "chat"
      BY <1>7 DEF Completion!Chat
    <2>2. CASE UNCHANGED <<last, result, invalid>>
      BY <2>1, <2>2
    <2>3. ASSUME NEW o \in Completion!Returned \cup Completion!Raised, Completion!Attempt(o)
          PROVE  LadderInv'
      BY <2>1, <2>3 DEF Completion!Attempt
    <2> QED BY <1>7, <2>2, <2>3 DEF Completion!Chat
  <1>8. CASE Completion!Report
    BY <1>8 DEF Completion!Report
  <1>9. CASE Completion!Done \/ UNCHANGED Completion!vars
    BY <1>9 DEF Completion!Done, Completion!vars
  <1> QED BY <1>2, <1>3, <1>4, <1>6, <1>7, <1>8, <1>9 DEF Completion!Next

\* An attempt is made only where nothing stops the ladder.
LEMMA LadderAttempts ==
    ASSUME NoneIsNoOutcome, LadderInv, [Completion!Next]_Completion!vars, tried' # tried
    PROVE  last \notin {"valid", "fatal", "thinking"}
  <1> USE DEF NoneIsNoOutcome, LadderInv, Completion!Returned, Completion!Raised
  <1>1. ASSUME NEW here \in {"keyword", "positional", "call"}, NEW cap, NEW next,
               Completion!TextStage(here, cap, next)
        PROVE  last \notin {"valid", "fatal", "thinking"}
    BY <1>1 DEF Completion!TextStage, Completion!MayTry
  <1>2. CASE Completion!Keyword \/ Completion!Positional \/ Completion!Call
    BY <1>1, <1>2 DEF Completion!Keyword, Completion!Positional, Completion!Call
  <1>3. CASE Completion!Ids \/ Completion!IdsPositional \/ Completion!Chat
    BY <1>3 DEF Completion!Ids, Completion!IdsPositional, Completion!Chat, Completion!MayTry
  <1>4. CASE Completion!Render \/ Completion!Judge \/ Completion!Report
    BY <1>4 DEF Completion!Render, Completion!Judge, Completion!Report
  <1>5. CASE Completion!Done \/ UNCHANGED Completion!vars
    BY <1>5 DEF Completion!Done, Completion!vars
  <1> QED BY <1>2, <1>3, <1>4, <1>5 DEF Completion!Next

\* The worker is not called again once an attempt returned usable output, failed fatally
\* or leaked thinking, whatever the build offers and however many tokenizations differ.
THEOREM TheLadderStops ==
    ASSUME NoneIsNoOutcome
    PROVE  NodeSpec => LadderStops
  <1>1. Completion!Init => LadderInv
    BY DEF Completion!Init, LadderInv, NoneIsNoOutcome, Completion!Returned, Completion!Raised
  <1>2. LadderInv /\ [Completion!Next]_Completion!vars
          => [tried' # tried => last \notin {"valid", "fatal", "thinking"}]_Completion!vars
    BY LadderAttempts
  <1>3. LadderInv /\ [Completion!Next]_Completion!vars => LadderInv'
    BY LadderNext
  <1> QED BY <1>1, <1>2, <1>3, PartsStart, CompletionSteps, PTL
     DEF NodeSpec, LadderStops, Completion!LadderStops

--------------------------------------------------------------------------------
(* ApiV1Inference                                                          *)

\* The window is a number of tokens and the default for the output a positive one: the
\* values of model.context_size and model.max_tokens (config_schema.py:157).
InferenceConstants == Window \in Nat /\ DefaultMax \in Nat \ {0}

\* Before the generation there is no call, and once admitted a request has a budget that
\* keeps what it asked for and what the window leaves.
InferenceInv ==
    /\ stage \in {"idle", "validate", "instance", "tokenize", "render", "admit"} => call = None
    /\ stage # "idle" => req.max \in Nat \ {0}
    /\ budget \in [prompt : Nat, effective : Nat]
    /\ stage \in {"generate", "running"} =>
         budget.effective \in 1 .. req.max /\ budget.prompt + budget.effective <= Window
    /\ Inference!CallHonoursRequest
    /\ Inference!NoReasoningReleased

\* The smaller of two numbers.
LEMMA SmallerOfTwo ==
    ASSUME NEW a \in Int, NEW b \in Int
    PROVE  Inference!Min({a, b}) = IF a <= b THEN a ELSE b
  <1> DEFINE S == {a, b}
             m == IF a <= b THEN a ELSE b
  <1>1. m \in S /\ \A y \in S : m <= y
    OBVIOUS
  <1>2. \A x \in S : (\A y \in S : x <= y) => x = m
    OBVIOUS
  <1>3. (CHOOSE x \in S : \A y \in S : x <= y) = m
    BY <1>1, <1>2
  <1> QED BY <1>3 DEF Inference!Min

\* The front wrappers are counted by a number: some prefix, the empty one, is all wrappers.
LEMMA WrappersCounted ==
    ASSUME NEW c \in Seq(Inference!Piece)
    PROVE  Inference!Wrappers(c) \in Nat
  <1> DEFINE K == {k \in 0 .. Len(c) : 2 * k <= Len(c)
                     /\ \A i \in 1 .. k : c[2 * i - 1] = "open" /\ c[2 * i] = "close"}
             D == {d \in Nat : Len(c) - d \in K}
  <1>1. Len(c) \in Nat
    OBVIOUS
  <1>2. 0 \in K
    BY <1>1
  <1>3. Len(c) \in D
    BY <1>1, <1>2
  <1>4. K \subseteq 0 .. Len(c) /\ D \subseteq Nat
    OBVIOUS
  <1>5. \A k \in K : Len(c) - k \in D
    BY <1>1, <1>4
  <1>6. \A d \in D : Len(c) - d \in K
    OBVIOUS
  <1>7. Inference!Wrappers(c) = CHOOSE x \in K : \A y \in K : x >= y
    BY DEF Inference!Wrappers, Inference!Max
  <1> HIDE DEF K, D
  <1>8. PICK d \in D : \A e \in D : d <= e
    <2>1. PICK d \in D : \A e \in D : ~(<<e, d>> \in OpToRel(<, Nat))
      BY <1>3, <1>4, NatLessThanWellFounded, WFMin
    <2>2. \A e \in D : ~(e < d)
      BY <1>4, <2>1 DEF OpToRel
    <2> QED BY <1>4, <2>2
  <1>9. Len(c) - d \in K /\ \A y \in K : Len(c) - d >= y
    <2> SUFFICES ASSUME NEW y \in K PROVE Len(c) - d >= y
      BY <1>6
    <2>1. Len(c) - y \in D /\ d <= Len(c) - y
      BY <1>5, <1>8
    <2> QED BY <2>1, <1>1, <1>4
  <1>10. \E x \in K : \A y \in K : x >= y
    BY <1>9
  <1>11. (CHOOSE x \in K : \A y \in K : x >= y) \in K
    BY <1>10
  <1>12. Inference!Wrappers(c) \in K
    BY ONLY <1>7, <1>11
  <1>13. \A k \in K : k \in Nat
    BY <1>1, <1>4
  <1> QED BY ONLY <1>12, <1>13

\* Content that passes the normalisation of a non-thinking profile has no think tag.
LEMMA NormalizedIsUntagged ==
    ASSUME NEW c \in Seq(Inference!Piece), Inference!Normalize(TRUE, c) # None
    PROVE  ~Inference!Tagged(Inference!Normalize(TRUE, c))
  <1> DEFINE rest == SubSeq(c, 2 * Inference!Wrappers(c) + 1, Len(c))
  <1>1. ~Inference!Tagged(rest) /\ Inference!Normalize(TRUE, c) = Inference!DropEnd(rest)
    BY DEF Inference!Normalize
  <1>2. rest \in Seq(Inference!Piece)
    BY WrappersCounted
  <1> HIDE DEF rest
  <1>3. CASE Inference!DropEnd(rest) = rest
    BY <1>1, <1>3
  <1>4. CASE Inference!DropEnd(rest) # rest
    <2>1. rest # <<>> /\ Inference!DropEnd(rest) = Inference!Front(rest)
      BY <1>4 DEF Inference!DropEnd
    <2>2. /\ Len(Inference!Front(rest)) \in Nat /\ Len(Inference!Front(rest)) <= Len(rest)
          /\ \A i \in 1 .. Len(Inference!Front(rest)) : Inference!Front(rest)[i] = rest[i]
      BY <1>2, <2>1, FrontFacts DEF Inference!Front
    <2>3. Len(rest) \in Nat
      BY <1>2
    <2>4. \A i \in 1 .. Len(Inference!Front(rest)) : i \in 1 .. Len(rest)
      BY <2>2, <2>3
    <2> QED BY <1>1, <2>1, <2>2, <2>4 DEF Inference!Tagged
  <1> QED BY <1>3, <1>4

\* What a non-thinking profile makes of a completion carries no reasoning.
LEMMA OutputsAreClean ==
    ASSUME NEW m \in Inference!Outputs[TRUE], m # None
    PROVE  ~m.reasoning /\ ~Inference!Tagged(m.content)
  <1>1. PICK r \in Inference!Completion : m = Inference!AssistantMessage(TRUE, r)
    BY DEF Inference!Outputs
  <1>2. r.content \in Seq(Inference!Piece) /\ r.reasoning \in BOOLEAN
    <2>1. r.content \in Inference!SeqOf(Inference!Piece, MaxPieces) /\ r.reasoning \in BOOLEAN
      BY DEF Inference!Completion
    <2>2. PICK k \in 0 .. MaxPieces : r.content \in [1 .. k -> Inference!Piece]
      BY <2>1 DEF Inference!SeqOf
    <2> QED BY <2>1, <2>2
  <1>3. ~r.reasoning
    BY <1>1, <1>2 DEF Inference!AssistantMessage
  <1>4. CASE r.content = <<>>
    BY <1>1, <1>3, <1>4 DEF Inference!AssistantMessage, Inference!Assistant, Inference!Tagged
  <1>5. CASE r.content # <<>>
    <2>1. /\ Inference!Normalize(TRUE, r.content) # None
          /\ m.reasoning = r.reasoning
          /\ m.content = Inference!Normalize(TRUE, r.content)
      BY <1>1, <1>3, <1>5 DEF Inference!AssistantMessage, Inference!Assistant
    <2> QED BY <1>2, <1>3, <2>1, NormalizedIsUntagged
  <1> QED BY <1>4, <1>5

\* A request that is answered leaves nothing of itself behind.
LEMMA AnswerKeeps ==
    ASSUME InferenceInv, NEW code, NEW m, NEW blame, Inference!Answer(code, m, blame),
           nonThinking /\ code = "ok" => ~m.reasoning /\ ~Inference!Tagged(m.content)
    PROVE  InferenceInv'
  BY DEF InferenceInv, Inference!Answer, Inference!NoBudget, Inference!CallHonoursRequest,
         Inference!NoReasoningReleased, Inference!Tagged

\* A refusal is never an answer with a message.
LEMMA RefuseKeeps ==
    ASSUME InferenceInv, NEW code, code # "ok", Inference!Refuse(code)
    PROVE  InferenceInv'
  BY AnswerKeeps DEF Inference!Refuse

\* No request has arrived.
LEMMA InferenceInit == Inference!Init => InferenceInv
  BY DEF Inference!Init, InferenceInv, Inference!NoBudget, Inference!CallHonoursRequest,
     Inference!NoReasoningReleased

\* Every step keeps the invariant.
LEMMA InferenceNext ==
    ASSUME InferenceConstants, InferenceInv, [Inference!Next]_Inference!vars
    PROVE  InferenceInv'
  <1> USE DEF InferenceInv, Inference!CallHonoursRequest, Inference!NoReasoningReleased
  <1>1. CASE Inference!Receive
    BY <1>1 DEF Inference!Receive, InferenceConstants
  <1>2. CASE Inference!Validate
    BY <1>2, RefuseKeeps DEF Inference!Validate
  <1>3. CASE Inference!GetInstance
    BY <1>3, RefuseKeeps DEF Inference!GetInstance
  <1>4. CASE Inference!NewRuntime
    BY <1>4 DEF Inference!NewRuntime
  <1>5. CASE Inference!LoseRuntime
    BY <1>5 DEF Inference!LoseRuntime
  <1>6. CASE Inference!Tokenize
    BY <1>6 DEF Inference!Tokenize, Inference!Counted, InferenceConstants
  <1>7. CASE Inference!Render
    BY <1>7, AnswerKeeps DEF Inference!Render, Inference!Counted, Inference!AdmissionError,
         InferenceConstants
  <1>8. CASE Inference!Admit
    <2>1. CASE ~req.tier \/ budget.prompt >= Window
      BY <1>8, <2>1, RefuseKeeps DEF Inference!Admit
    <2>2. CASE ~(~req.tier \/ budget.prompt >= Window)
      <3> DEFINE room == Window - budget.prompt
      <3>1. req.max \in Nat \ {0} /\ room \in Nat \ {0} /\ budget.prompt \in Nat
        BY <1>8, <2>2 DEF Inference!Admit, InferenceConstants
      <3>2. Inference!Min({req.max, room}) = IF req.max <= room THEN req.max ELSE room
        BY <3>1, SmallerOfTwo
      <3>3. /\ stage' = "generate" /\ call' = call /\ req' = req /\ answer' = answer
            /\ nonThinking' = nonThinking /\ call = None
            /\ budget' = [budget EXCEPT !.effective = Inference!Min({req.max, room})]
        BY <1>8, <2>2 DEF Inference!Admit
      <3> HIDE DEF room
      <3>4. budget'.prompt = budget.prompt /\ budget'.effective = Inference!Min({req.max, room})
            /\ budget' \in [prompt : Nat, effective : Nat]
        BY <3>1, <3>2, <3>3
      <3>5. budget'.effective \in 1 .. req.max /\ budget'.effective <= room
        BY <3>1, <3>2, <3>4
      <3>6. budget'.prompt + budget'.effective <= Window
        BY <3>1, <3>5, <3>4 DEF room, InferenceConstants
      <3> QED BY <3>1, <3>3, <3>4, <3>5, <3>6
    <2> QED BY <2>1, <2>2
  <1>9. CASE Inference!Generate
    BY <1>9, RefuseKeeps DEF Inference!Generate, Inference!Keywords, Inference!ChatKeywords,
         Inference!RenderedKeywords
  <1>10. CASE Inference!Rejected
    BY <1>10, RefuseKeeps DEF Inference!Rejected
  <1>11. CASE Inference!Failed
    BY <1>11, RefuseKeeps DEF Inference!Failed
  <1>12. CASE Inference!Completed
    BY <1>12, RefuseKeeps, AnswerKeeps, OutputsAreClean DEF Inference!Completed
  <1>13. CASE UNCHANGED Inference!vars
    BY <1>13 DEF Inference!vars
  <1> QED
    BY <1>1, <1>2, <1>3, <1>4, <1>5, <1>6, <1>7, <1>8, <1>9, <1>10, <1>11, <1>12, <1>13
       DEF Inference!Next

\* Every call of the runtime carries the client's options and keeps within the window and
\* the output that was asked for (_api_v1_runtime_completion_kwargs and
\* _api_v1_authoritative_context_admission of relay_client.py), for any requests, runtimes
\* and learned rejections.
THEOREM CallsHonourRequests ==
    ASSUME InferenceConstants
    PROVE  NodeSpec => []CallHonoursRequest
  <1>1. InferenceInv => CallHonoursRequest
    BY DEF InferenceInv, CallHonoursRequest
  <1>2. Inference!Init => InferenceInv
    BY InferenceInit
  <1>3. InferenceInv /\ [Inference!Next]_Inference!vars => InferenceInv'
    BY InferenceNext
  <1> QED BY <1>1, <1>2, <1>3, PartsStart, InferenceSteps, PTL DEF NodeSpec

\* A non-thinking profile never releases reasoning: every call carries the hard switch, and
\* an answer has no reasoning field and no think tag (relay_client.py,
\* _assistant_message_from_runtime_completion and
\* _api_v1_normalize_qwen_non_thinking_content), whatever the runtime returns.
THEOREM ReasoningStaysInside ==
    ASSUME InferenceConstants
    PROVE  NodeSpec => []NoReasoningReleased
  <1>1. InferenceInv => NoReasoningReleased
    BY DEF InferenceInv, NoReasoningReleased
  <1>2. Inference!Init => InferenceInv
    BY InferenceInit
  <1>3. InferenceInv /\ [Inference!Next]_Inference!vars => InferenceInv'
    BY InferenceNext
  <1> QED BY <1>1, <1>2, <1>3, PartsStart, InferenceSteps, PTL DEF NodeSpec

--------------------------------------------------------------------------------
(* ProgressPublisher                                                       *)

\* A publisher is quiet after it is stopped; the update in the worker's hands is overdue
\* only if its publisher is quiet, and is then never cleared for posting.
ProgressInv ==
    /\ quiet \subseteq stopped /\ overdue \in BOOLEAN
    /\ overdue => work \in quiet
    /\ hand = "cleared" => ~overdue
    /\ late = {}

\* Nothing has been submitted.
LEMMA ProgressInit == Progress!Init => ProgressInv
  BY DEF Progress!Init, ProgressInv

\* Every step keeps the invariant; the check after the preparation is what keeps an
\* overdue update from being posted.
LEMMA ProgressNext == ProgressInv /\ [Progress!Next]_Progress!vars => ProgressInv'
  <1> SUFFICES ASSUME ProgressInv, [Progress!Next]_Progress!vars PROVE ProgressInv'
    OBVIOUS
  <1> USE DEF ProgressInv, Progress!worker
  <1>1. ASSUME NEW p \in Publisher, NEW ph \in Progress!Phases, Progress!Submit(p, ph)
        PROVE  ProgressInv'
    BY <1>1 DEF Progress!Submit
  <1>2. ASSUME NEW p \in Publisher, Progress!HandOff(p) PROVE ProgressInv'
    BY <1>2 DEF Progress!HandOff
  <1>3. ASSUME NEW p \in Publisher, Progress!StopFlags(p) PROVE ProgressInv'
    BY <1>3 DEF Progress!StopFlags
  <1>4. ASSUME NEW p \in Publisher, Progress!Invalidate(p) PROVE ProgressInv'
    BY <1>4 DEF Progress!Invalidate
  <1>5. CASE Progress!Take
    <2>1. /\ work' = mail.pub /\ hand' = "check" /\ UNCHANGED <<stopped, quiet, late>>
          /\ overdue' = (mail.pub \in quiet)
      BY <1>5 DEF Progress!Take
    <2>2. CASE mail.pub \in quiet
      BY <2>1, <2>2
    <2>3. CASE mail.pub \notin quiet
      <3>1. (mail.pub \in quiet) = FALSE
        BY <2>3
      <3>2. overdue' = FALSE
        BY <2>1, <3>1, Zenon
      <3> QED BY <2>1, <3>2
    <2> QED BY <2>2, <2>3
  <1>6. CASE Progress!Prepare
    <2>1. UNCHANGED <<stopped, quiet, late>>
      BY <1>6 DEF Progress!Prepare
    <2>2. \/ hand' = "prepared" /\ UNCHANGED <<work, overdue>>
          \/ hand' = "wait" /\ overdue' = FALSE
      BY <1>6 DEF Progress!Prepare, Progress!Rest
    <2>3. CASE hand' = "prepared" /\ UNCHANGED <<work, overdue>>
      BY <2>1, <2>3
    <2>4. CASE hand' = "wait" /\ overdue' = FALSE
      BY <2>1, <2>4
    <2> QED BY <2>2, <2>3, <2>4
  <1>7. CASE Progress!Recheck
    BY <1>7 DEF Progress!Recheck, Progress!Rest, Progress!Active
  <1>8. CASE Progress!Post
    BY <1>8 DEF Progress!Post
  <1>9. ASSUME NEW r \in BOOLEAN, Progress!Reply(r) PROVE ProgressInv'
    BY <1>9 DEF Progress!Reply, Progress!Rest
  <1>10. CASE Progress!IntervalPasses
    BY <1>10 DEF Progress!IntervalPasses
  <1>11. CASE UNCHANGED Progress!vars
    BY <1>11 DEF Progress!vars
  <1> QED BY <1>1, <1>2, <1>3, <1>4, <1>5, <1>6, <1>7, <1>8, <1>9, <1>10, <1>11
     DEF Progress!Next

\* No update the worker takes up after stop() has returned is posted, however the
\* observers, the serving threads and the worker interleave.
THEOREM FinishedRequestsStayQuiet == NodeSpec => []StoppedStaysQuiet
  <1>1. ProgressInv => StoppedStaysQuiet
    BY DEF ProgressInv, StoppedStaysQuiet, Progress!StoppedStaysQuiet
  <1> QED BY <1>1, PartsStart, ProgressInit, ProgressNext, ProgressSteps, PTL DEF NodeSpec
================================================================================
