---------------------------- MODULE ExecutionIpc ----------------------------
(***************************************************************************)
(* The authenticated local IPC of the Windows execution host: a Master     *)
(* that signs frames, a Broker service and an Executor service, each with  *)
(* a durable append-only ledger of intents and acknowledgements.           *)
(*                                                                         *)
(* Source: execution_ipc_state.rs and windows_execution_pipe.rs of the     *)
(* protocol crate, ipc.rs and windows_service_host.rs of the Broker and of *)
(* the Executor, and execution_ipc.rs of the Master.  A service serves one *)
(* pipe connection at a time and every error ends its serve loop, hence    *)
(* the service; a restart reopens the ledger.  The Master may send any     *)
(* frame it has ever signed, at any time and as often as it likes.         *)
(***************************************************************************)
EXTENDS Naturals, Sequences, FiniteSets

CONSTANTS
  Frame,         \* frame identities (UUIDs); a dispatch frame and the Executor
                 \* frame it carries share one
  None,          \* the empty Option, and a frame that is not signed yet
  Down,          \* a service that is not running
  MaxTries,      \* attempts of the Broker to reach the Executor (100)
  MaxRecords,    \* journal records that fit MAX_JOURNAL_BYTES
  MaxSeq,        \* bound: sequence numbers the Master uses
  MaxAcks        \* bound: acknowledgement ids

ASSUME IpcAssumption ==
  /\ None \notin Frame
  /\ MaxTries \in Nat \ {0} /\ MaxRecords \in Nat \ {0}
  /\ MaxSeq \in Nat /\ MaxAcks \in Nat

Service == {"broker", "executor"}
Kind == {"health", "dispatch"}

\* What verification finds in a frame: everything in order; a bad encoding,
\* signature, endpoint, service or signer; another authority revision; or a
\* forwarded Executor frame that does not verify.
Binding == {"verified", "unverified", "other_revision", "bad_forward"}

VARIABLES
  request,   \* the frames the Master has signed
  file,      \* the two journal files
  mem,       \* the ledger a running service holds in memory, or Down
  stage,     \* where each service is in its serve loop
  nextAck,   \* the next fresh acknowledgement id
  accepted   \* the pairs of acknowledgements the Master has verified

vars == <<request, file, mem, stage, nextAck, accepted>>

AckId == 1 .. MaxAcks
Ack == [frame : Frame, seq : 1 .. MaxSeq, id : AckId]
Request == [kind : Kind, binding : Binding, seq : 1 .. MaxSeq, execSeq : 1 .. MaxSeq]

\* LedgerState, without the identity fields that open pins for good.
LedgerState ==
  [next : 1 .. MaxSeq + 1, pending : Frame \cup {None},
   lastAck : Ack \cup {None}, quarantined : BOOLEAN]

\* JournalRecord: prev stands for previous_record_sha256 and is the position
\* of the record whose digest was taken, 0 for the zero digest.
JournalRecord == [prev : 0 .. MaxRecords, state : LedgerState]
File == [exists : BOOLEAN, records : Seq(JournalRecord), torn : BOOLEAN]
Ledger == [state : LedgerState, digest : 0 .. MaxRecords]

Idle == [at |-> "idle"]
Stage ==
  {Idle}
    \cup [at : {"admitted"}, frame : Frame]
    \cup [at : {"forward"}, frame : Frame, ack : Ack, tries : 1 .. MaxTries, connected : BOOLEAN]
    \cup [at : {"answer"}, frame : Frame, ack : Ack, executor : Ack \cup {None}]

\* One type invariant for the module.
TypeOK ==
  /\ request \in [Frame -> Request \cup {None}]
  /\ file \in [Service -> File]
  /\ mem \in [Service -> Ledger \cup {Down}]
  /\ stage \in [Service -> Stage]
  /\ nextAck \in 1 .. MaxAcks + 1
  /\ accepted \subseteq [broker : Ack, executor : Ack \cup {None}]

\* An Option that holds a value is not None, and a ledger is not a service that
\* is down.
ASSUME OptionAssumption == None \notin Ack /\ Down \notin Ledger

InitialState ==
  [next |-> 1, pending |-> None, lastAck |-> None, quarantined |-> FALSE]

Init ==
  /\ request = [f \in Frame |-> None]
  /\ file = [s \in Service |-> [exists |-> FALSE, records |-> <<>>, torn |-> FALSE]]
  /\ mem = [s \in Service |-> Down]
  /\ stage = [s \in Service |-> Idle]
  /\ nextAck = 1
  /\ accepted = {}

Running(s) == mem[s] # Down
SeqOf(s, f) == IF s = "broker" THEN request[f].seq ELSE request[f].execSeq

-----------------------------------------------------------------------------
(* The ledger *)

\* The ways an append can end: written and synced; refused or failed before a
\* byte reached the disk; complete on disk although the sync reported an
\* error or the service died before it returned; cut off inside the record.
Outcome == {"ok", "lost", "kept", "torn"}

\* persist: the record chains to the digest held in memory.  A record that
\* does not fit the size limit is refused before anything is written.
Appended(s, st, o) ==
  CASE o \in {"ok", "kept"} ->
         [file[s] EXCEPT !.records = Append(@, [prev |-> mem[s].digest, state |-> st])]
    [] o = "torn" -> [file[s] EXCEPT !.torn = TRUE]
    [] o = "lost" -> file[s]

Fits(s, o) == o # "lost" => Len(file[s].records) < MaxRecords

\* Bug: the serve loop goes on after an append whose sync failed.
PersistIgnoresSync(s, st, o) ==
  /\ Fits(s, o)
  /\ file' = [file EXCEPT ![s] = Appended(s, st, o)]
  /\ mem' = [mem EXCEPT ![s] =
       IF o = "ok" THEN [state |-> st, digest |-> Len(file[s].records) + 1]
       ELSE IF o = "kept" THEN [state |-> st, digest |-> mem[s].digest] ELSE Down]

\* Bug: the serve loop goes on after an append that was refused.
PersistIgnoresRefusal(s, st, o) ==
  /\ Fits(s, o)
  /\ file' = [file EXCEPT ![s] = Appended(s, st, o)]
  /\ mem' = [mem EXCEPT ![s] =
       IF o = "ok" THEN [state |-> st, digest |-> Len(file[s].records) + 1]
       ELSE IF o = "lost" THEN [state |-> st, digest |-> mem[s].digest] ELSE Down]

\* The state changes in memory before it is persisted; only the digest waits
\* for the write.  The error is returned, and ends the service.
Persist(s, st, o) ==
  /\ Fits(s, o)
  /\ file' = [file EXCEPT ![s] = Appended(s, st, o)]
  /\ mem' = [mem EXCEPT ![s] =
       IF o = "ok" THEN [state |-> st, digest |-> Len(file[s].records) + 1] ELSE Down]

\* load_records: a file without a record, or without its final newline, is
\* refused, and so is a broken chain.
Loads(s) ==
  /\ file[s].records # <<>>
  /\ ~file[s].torn
  /\ \A i \in DOMAIN file[s].records : file[s].records[i].prev = i - 1

LastRecord(s) == file[s].records[Len(file[s].records)]

\* Bug: the quarantine flag of the reloaded state is not looked at.
ReopenQuarantined(s) ==
  /\ ~Running(s)
  /\ file[s].exists
  /\ Loads(s)
  /\ mem' = [mem EXCEPT ![s] =
       [state |-> LastRecord(s).state, digest |-> Len(file[s].records)]]
  /\ stage' = [stage EXCEPT ![s] = Idle]
  /\ UNCHANGED <<request, file, nextAck, accepted>>

\* DurableIpcLedger::open of an existing file.
Reopen(s) ==
  /\ ~Running(s)
  /\ file[s].exists
  /\ Loads(s)
  /\ ~LastRecord(s).state.quarantined
  /\ mem' = [mem EXCEPT ![s] =
       [state |-> LastRecord(s).state, digest |-> Len(file[s].records)]]
  /\ stage' = [stage EXCEPT ![s] = Idle]
  /\ UNCHANGED <<request, file, nextAck, accepted>>

\* DurableIpcLedger::open creates the file and then persists the first record.
CreateLedger(s) ==
  /\ ~Running(s)
  /\ ~file[s].exists
  /\ \E o \in Outcome :
       /\ file' = [file EXCEPT ![s] =
            [exists |-> TRUE,
             records |-> IF o \in {"ok", "kept"}
                         THEN <<[prev |-> 0, state |-> InitialState]>> ELSE <<>>,
             torn |-> o = "torn"]]
       /\ mem' = [mem EXCEPT ![s] =
            IF o = "ok" THEN [state |-> InitialState, digest |-> 1] ELSE Down]
  /\ stage' = [stage EXCEPT ![s] = Idle]
  /\ UNCHANGED <<request, nextAck, accepted>>

-----------------------------------------------------------------------------
(* The Master *)

\* sign_dispatch_validation and sign_health: the caller picks the sequence
\* numbers; a binding other than "verified" is a Master configured with other
\* keys or another authority revision than the services.
Sign(f, r) ==
  /\ request[f] = None
  /\ r.kind = "health" => r.binding # "bad_forward" /\ r.execSeq = 1
  /\ request' = [request EXCEPT ![f] = r]
  /\ UNCHANGED <<file, mem, stage, nextAck, accepted>>

\* verify_ack of both hops, on the answer the Broker has put together.
VerifiedPair(f, b, e) ==
  /\ b.frame = f /\ b.seq = request[f].seq
  /\ (e = None) = (request[f].kind = "health")
  /\ e # None => e.frame = f /\ e.seq = request[f].execSeq

-----------------------------------------------------------------------------
(* The services *)

\* serve_once hands a service the next frame: the Broker takes one of the
\* Master's, the Executor the one the Broker is forwarding.
Receives(s, f) ==
  /\ Running(s)
  /\ stage[s] = Idle
  /\ request[f] # None
  /\ s = "executor" =>
       /\ stage["broker"].at = "forward"
       /\ stage["broker"].frame = f
       /\ ~stage["broker"].connected

\* The Broker's connection to the Executor, from the moment it is taken.
Connected(s) ==
  IF s = "executor" THEN [stage EXCEPT !["broker"].connected = TRUE] ELSE stage

\* What follows an acknowledgement: a dispatch the Broker acknowledged is
\* forwarded, everything else is answered.
AfterAck(s, f, ack) ==
  IF s = "broker" /\ request[f].kind = "dispatch"
  THEN [at |-> "forward", frame |-> f, ack |-> ack, tries |-> 1, connected |-> FALSE]
  ELSE [at |-> "answer", frame |-> f, ack |-> ack, executor |-> None]

Stopped(s) == [stage EXCEPT ![s] = Idle]

\* completed_replay: asked before the freshness check, so that a retry after
\* the frame has expired still gets the original acknowledgement.
CompletedReplay(s, f) ==
  /\ request[f].binding \notin {"unverified", "other_revision"}
  /\ mem[s].state.lastAck # None
  /\ mem[s].state.lastAck.frame = f

Replay(s, f) ==
  /\ Receives(s, f)
  /\ CompletedReplay(s, f)
  /\ stage' = [Connected(s) EXCEPT ![s] = AfterAck(s, f, mem[s].state.lastAck)]
  /\ UNCHANGED <<request, file, mem, nextAck, accepted>>

\* The conditions under which handle or admit quarantines: a frame that does
\* not verify, one that is not fresh, another authority revision, another
\* frame while one is pending, a number that is not the next.  A bad_forward
\* frame is only found out after it has been admitted.
Refuses(s, f, fresh) ==
  \/ request[f].binding \in {"unverified", "other_revision"}
  \/ ~fresh
  \/ mem[s].state.pending \notin {None, f}
  \/ mem[s].state.pending = None /\ SeqOf(s, f) # mem[s].state.next

\* quarantine: reject drops the error of a quarantine that could not be
\* persisted.  Either way the service stops.
Quarantine(s, o) ==
  /\ Fits(s, o)
  /\ file' = [file EXCEPT ![s] =
       Appended(s, [mem[s].state EXCEPT !.quarantined = TRUE], o)]
  /\ mem' = [mem EXCEPT ![s] = Down]

Reject(s, f) ==
  /\ Receives(s, f)
  /\ ~CompletedReplay(s, f)
  /\ \E fresh \in BOOLEAN : Refuses(s, f, fresh)
  /\ \E o \in Outcome : Quarantine(s, o)
  /\ stage' = Connected(s)
  /\ UNCHANGED <<request, nextAck, accepted>>

AdmitNew(s, f) ==
  /\ Receives(s, f)
  /\ ~CompletedReplay(s, f)
  /\ ~Refuses(s, f, TRUE)
  /\ mem[s].state.pending = None
  /\ \E o \in Outcome :
       /\ Persist(s, [mem[s].state EXCEPT !.pending = f], o)
       /\ stage' = IF o = "ok"
                   THEN [Connected(s) EXCEPT ![s] = [at |-> "admitted", frame |-> f]]
                   ELSE Connected(s)
  /\ UNCHANGED <<request, nextAck, accepted>>

RecoverPending(s, f) ==
  /\ Receives(s, f)
  /\ ~CompletedReplay(s, f)
  /\ ~Refuses(s, f, TRUE)
  /\ mem[s].state.pending = f
  /\ stage' = [Connected(s) EXCEPT ![s] = [at |-> "admitted", frame |-> f]]
  /\ UNCHANGED <<request, file, mem, nextAck, accepted>>

\* forwarded_executor: the Broker verifies the frame it is to pass on.
BadForward(s) ==
  s = "broker" /\ request[stage[s].frame].binding = "bad_forward"

RejectForward(s) ==
  /\ stage[s].at = "admitted"
  /\ BadForward(s)
  /\ \E o \in Outcome : Quarantine(s, o)
  /\ stage' = Stopped(s)
  /\ UNCHANGED <<request, nextAck, accepted>>

\* Bug: the sequence number is not advanced.
CompletedSameNumber(st, ack) ==
  [st EXCEPT !.pending = None, !.lastAck = ack]

\* complete: the acknowledgement gets a fresh id and is persisted before it
\* is answered or the frame is forwarded.
Completed(st, ack) ==
  [st EXCEPT !.next = @ + 1, !.pending = None, !.lastAck = ack]

Complete(s) ==
  LET f == stage[s].frame
      ack == [frame |-> f, seq |-> SeqOf(s, f), id |-> nextAck]
  IN /\ stage[s].at = "admitted"
     /\ ~BadForward(s)
     /\ nextAck <= MaxAcks
     /\ nextAck' = nextAck + 1
     /\ \E o \in Outcome :
          /\ Persist(s, Completed(mem[s].state, ack), o)
          /\ stage' = IF o = "ok" THEN [stage EXCEPT ![s] = AfterAck(s, f, ack)] ELSE Stopped(s)
     /\ UNCHANGED <<request, accepted>>

\* Bug: one attempt too many.
AttemptFailsOnceMore ==
  /\ stage["broker"].at = "forward"
  /\ stage["executor"] = Idle
  /\ stage["broker"].connected \/ ~Running("executor")
  /\ IF stage["broker"].tries <= MaxTries
     THEN /\ stage' = [stage EXCEPT !["broker"].tries = @ + 1, !["broker"].connected = FALSE]
          /\ UNCHANGED mem
     ELSE /\ stage' = Stopped("broker")
          /\ mem' = [mem EXCEPT !["broker"] = Down]
  /\ UNCHANGED <<request, file, nextAck, accepted>>

\* The Broker's attempt fails when the Executor cannot be opened, has ended
\* or has lost the connection; the last attempt ends the Broker.
AttemptFails ==
  /\ stage["broker"].at = "forward"
  /\ stage["executor"] = Idle
  /\ stage["broker"].connected \/ ~Running("executor")
  /\ IF stage["broker"].tries < MaxTries
     THEN /\ stage' = [stage EXCEPT !["broker"].tries = @ + 1, !["broker"].connected = FALSE]
          /\ UNCHANGED mem
     ELSE /\ stage' = Stopped("broker")
          /\ mem' = [mem EXCEPT !["broker"] = Down]
  /\ UNCHANGED <<request, file, nextAck, accepted>>

\* The Executor answers: the Broker still waits on this connection, or it has
\* gone and the answer is lost, with or without an error that stops the
\* service.
AnswerBroker ==
  /\ stage["executor"].at = "answer"
  /\ IF stage["broker"].at = "forward" /\ stage["broker"].connected
     THEN /\ stage' = [stage EXCEPT
                !["broker"] = [at |-> "answer", frame |-> stage["broker"].frame,
                               ack |-> stage["broker"].ack,
                               executor |-> stage["executor"].ack],
                !["executor"] = Idle]
          /\ UNCHANGED mem
     ELSE /\ stage' = Stopped("executor")
          /\ \E up \in BOOLEAN :
               mem' = IF up THEN mem ELSE [mem EXCEPT !["executor"] = Down]
  /\ UNCHANGED <<request, file, nextAck, accepted>>

\* The Broker answers the Master, which verifies both acknowledgements.
AnswerMaster ==
  /\ stage["broker"].at = "answer"
  /\ VerifiedPair(stage["broker"].frame, stage["broker"].ack, stage["broker"].executor)
  /\ accepted' = accepted \cup
       {[broker |-> stage["broker"].ack, executor |-> stage["broker"].executor]}
  /\ stage' = Stopped("broker")
  /\ UNCHANGED <<request, file, mem, nextAck>>

\* The Master has gone: the write fails and stops the service, or the answer
\* went into the pipe and is never read.
AnswerLost ==
  /\ stage["broker"].at = "answer"
  /\ stage' = Stopped("broker")
  /\ \E up \in BOOLEAN : mem' = IF up THEN mem ELSE [mem EXCEPT !["broker"] = Down]
  /\ UNCHANGED <<request, file, nextAck, accepted>>

\* A service dies, or is stopped, between two of its steps.
Crash(s) ==
  /\ Running(s)
  /\ mem' = [mem EXCEPT ![s] = Down]
  /\ stage' = Stopped(s)
  /\ UNCHANGED <<request, file, nextAck, accepted>>

-----------------------------------------------------------------------------
Serve(s) ==
  \/ \E f \in Frame : Replay(s, f) \/ Reject(s, f) \/ AdmitNew(s, f) \/ RecoverPending(s, f)
  \/ RejectForward(s)
  \/ Complete(s)

Next ==
  \/ \E f \in Frame, r \in Request : Sign(f, r)
  \/ \E s \in Service : CreateLedger(s) \/ Reopen(s) \/ Serve(s) \/ Crash(s)
  \/ AttemptFails
  \/ AnswerBroker
  \/ AnswerMaster
  \/ AnswerLost

Spec == Init /\ [][Next]_vars

-----------------------------------------------------------------------------
(* Properties *)

\* A restart finds every journal either unreadable because its last record
\* is cut off, or empty, or as an intact chain: no sequence of failed writes,
\* failed syncs and restarts makes a service append to a chain that it has
\* lost track of (persist keeps the digest of the last record it knows it
\* wrote).
JournalReloads ==
  \A s \in Service :
    file[s].exists /\ file[s].records # <<>> /\ ~file[s].torn => Loads(s)

\* What a running service holds in memory is what its journal would reload:
\* the in-memory changes that admit, complete and quarantine make before they
\* persist never survive a failed write.
MemoryIsDurable ==
  \A s \in Service :
    Running(s) => /\ Loads(s)
                  /\ mem[s].state = LastRecord(s).state

\* A quarantine that reached the journal is final: the service never runs,
\* never acknowledges and never writes again.
QuarantineIsFinal ==
  [][\A s \in Service :
       file[s].records # <<>> /\ LastRecord(s).state.quarantined
         => file'[s] = file[s] /\ mem'[s] = Down]_vars

\* The acknowledgements a journal has on record.
OnRecord(s) ==
  {file[s].records[i].state.lastAck : i \in DOMAIN file[s].records} \ {None}

Issued == [s \in Service |-> OnRecord(s)]

Log == INSTANCE DispatchLog WITH
         NoAck <- None, Number <- 1 .. MaxSeq, issued <- Issued

\* Acknowledgements are issued once per frame, in sequence, first by the
\* Broker and then by the Executor, and the Master accepts only recorded ones.
ImplementsDispatchLog == Log!Spec
=============================================================================
