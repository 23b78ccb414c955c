---------------------------- MODULE ModelArtifact ----------------------------
(***************************************************************************)
(* The model file of a node: download_model_if_needed and what it calls in *)
(* utils/llm/model_manager.py.  Node processes that share a models         *)
(* directory check, hash, download and replace the pinned GGUF file and    *)
(* leave a receipt that binds the checksum to size and mtime, so that a    *)
(* warm start needs no hash.  A process crashes between any two steps; the *)
(* file is overwritten from outside at any time, with any mtime.           *)
(*                                                                         *)
(* A body is "pinned", "corrupt" (right size and magic, wrong hash) or     *)
(* "junk" (wrong size or magic).  Download bytes and progress are left out.*)
(***************************************************************************)
EXTENDS Integers

CONSTANTS Procs,      \* node processes
          MaxClock,   \* bound on writes to the file
          None

ASSUME MaxClockAssumption == MaxClock \in Nat \ {0}

VARIABLES
    file,       \* None, or the body and mtime of the file at model_path; history: forged,
                \* it was written from outside with the mtime of an earlier file
    receipt,    \* None, or the fingerprint it vouches for
    clock,      \* mtime of the last write
    ps          \* the processes

vars == <<file, receipt, clock, ps>>

Bodies == {"pinned", "corrupt", "junk"}
Size(body) == IF body = "junk" THEN "other" ELSE "pinned"
Fingerprint(f) == [size |-> Size(f.body), mtime |-> f.mtime]
Gone == [pc |-> "idle", suspect |-> FALSE, body |-> None, touched |-> FALSE]

Init ==
    /\ file \in {None} \cup [body : Bodies, mtime : {0}, forged : {FALSE}]
    /\ receipt = None /\ clock = 0
    /\ ps = [p \in Procs |-> Gone]

At(p, pc) == ps[p].pc = pc
To(p, pc) == ps' = [ps EXCEPT ![p].pc = pc]

\* A call; an earlier artifact or load error makes the file suspect.
Start(p) ==
    /\ At(p, "idle") \/ At(p, "ready") \/ At(p, "failed")
    /\ \E s \in BOOLEAN : ps' = [ps EXCEPT ![p] = [Gone EXCEPT !.pc = "check", !.suspect = s]]
    /\ UNCHANGED <<file, receipt, clock>>

ReceiptMatches(f) == receipt # None /\ receipt.print = Fingerprint(f)

\* _validate_existing_model_artifact up to the hash: a file of the wrong size or magic,
\* or one that cannot be read, is repaired; a receipt that cannot be read is none.
Check(p) ==
    /\ At(p, "check")
    /\ \/ To(p, "download")
       \/ /\ file # None /\ Size(file.body) = "pinned"
          /\ ps' = [ps EXCEPT ![p].pc = "hash", ![p].body = file.body]
       \/ /\ file # None /\ Size(file.body) = "pinned" /\ ~ps[p].suspect /\ ReceiptMatches(file)
          /\ To(p, "ready")
    /\ UNCHANGED <<file, receipt, clock>>

\* The full hash of the file opened by Check; a read error asks for a repair, too.
Hash(p) ==
    /\ At(p, "hash")
    /\ \/ ps[p].body = "pinned" /\ To(p, "stamp")
       \/ To(p, "download")
    /\ UNCHANGED <<file, receipt, clock>>

\* _write_artifact_verification_receipt: the file at the path is stat'ed now; errors
\* are swallowed and leave the old receipt.  After a download the size is read once
\* more, and an error there fails the call.
Stamp(p) ==
    /\ At(p, "stamp")
    /\ \/ /\ file # None
          /\ receipt' = [print |-> Fingerprint(file), raced |-> ps[p].touched]
       \/ UNCHANGED receipt
    /\ To(p, "ready") \/ (ps[p].body = None /\ To(p, "failed"))
    /\ UNCHANGED <<file, clock>>

\* The download to a temporary file, checked for size, magic and hash; one try.
Download(p) ==
    /\ At(p, "download")
    /\ \/ To(p, "failed")
       \/ To(p, "replace")
    /\ UNCHANGED <<file, receipt, clock>>

\* os.replace of the verified temporary file.
Replace_StampsFirst(p) ==   \* Fault: the receipt is written before the replace
    /\ At(p, "replace")
    /\ \/ /\ receipt = None /\ file # None
          /\ receipt' = [print |-> Fingerprint(file), raced |-> FALSE]
          /\ UNCHANGED <<file, clock, ps>>
       \/ /\ clock < MaxClock
          /\ clock' = clock + 1 /\ file' = [body |-> "pinned", mtime |-> clock + 1, forged |-> FALSE]
          /\ To(p, "ready") /\ UNCHANGED receipt
Replace(p) ==
    /\ At(p, "replace")
    /\ \/ /\ clock < MaxClock
          /\ clock' = clock + 1 /\ file' = [body |-> "pinned", mtime |-> clock + 1, forged |-> FALSE]
          /\ ps' = [ps EXCEPT ![p].pc = "stamp", ![p].body = None, ![p].touched = FALSE]
       \/ To(p, "failed") /\ UNCHANGED <<file, clock>>
    /\ UNCHANGED receipt

\* External: the process dies; a temporary file stays, and nobody reads it.
Crash(p) ==
    /\ ~At(p, "idle")
    /\ ps' = [ps EXCEPT ![p] = Gone]
    /\ UNCHANGED <<file, receipt, clock>>

\* External: the file is overwritten, with a new mtime or an old one, or removed; calls
\* under way are marked.
Overwrite ==
    /\ clock < MaxClock /\ clock' = clock + 1
    /\ \/ file' = None
       \/ \E body \in {"corrupt", "junk"}, mtime \in 0 .. clock + 1 :
            file' = [body |-> body, mtime |-> mtime, forged |-> mtime <= clock]
    /\ ps' = [p \in Procs |-> IF ps[p].pc \in {"idle", "check", "ready", "failed"} THEN ps[p]
                              ELSE [ps[p] EXCEPT !.touched = TRUE]]
    /\ UNCHANGED receipt

Step(p) == Check(p) \/ Hash(p) \/ Stamp(p) \/ Download(p) \/ Replace(p)
Next == Overwrite \/ \E p \in Procs : Start(p) \/ Step(p) \/ Crash(p)
Spec == Init /\ [][Next]_vars

------------------------------------------------------------------------------
\* A receipt that matches the file vouches for its contents, whatever crashed and
\* whoever else replaced the file.  Two things the code cannot tell are excepted: a file
\* overwritten between its hash, or its replacement by the download, and the stat the
\* receipt takes of it (raced), and one overwritten with the size and mtime it had (forged).
ReceiptSound ==
    (file # None /\ ~file.forged /\ receipt # None /\ ~receipt.raced /\ ReceiptMatches(file))
        => file.body = "pinned"
=============================================================================
