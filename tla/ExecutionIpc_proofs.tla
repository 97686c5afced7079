------------------------ MODULE ExecutionIpc_proofs -------------------------
(***************************************************************************)
(* Proofs about ExecutionIpc, for every set of frames and every value of   *)
(* the limits and bounds.                                                  *)
(***************************************************************************)
EXTENDS ExecutionIpc, SequenceTheorems, TLAPS

\* Every record of a journal names the one before it, torn or not.
Chained ==
  \A s \in Service : \A i \in DOMAIN file[s].records : file[s].records[i].prev = i - 1

\* A journal that was never created is empty, and none outgrows its limit.
JournalSize ==
  \A s \in Service : /\ ~file[s].exists => file[s].records = <<>>
                     /\ Len(file[s].records) <= MaxRecords

\* The journal is intact and its end is what the service has in memory.
Held(s) ==
  /\ file[s].exists /\ file[s].records # <<>> /\ ~file[s].torn
  /\ mem[s] = [state |-> LastRecord(s).state, digest |-> Len(file[s].records)]
  /\ ~mem[s].state.quarantined

RunningIsHeld == \A s \in Service : Running(s) => Held(s)
WorkingIsRunning == \A s \in Service : stage[s] # Idle => Running(s)

\* Acknowledgements on record carry the numbers of signed frames, all below
\* the next one, and ids that were handed out.
RecordedAcks ==
  \A s \in Service : \A a \in OnRecord(s) :
    /\ a \in Ack
    /\ request[a.frame] # None
    /\ a.seq = SeqOf(s, a.frame)
    /\ a.id < nextAck
    /\ a.seq < LastRecord(s).state.next

\* The next number is one above the last one on record.
Contiguous ==
  \A s \in Service : OnRecord(s) # {} =>
    \E a \in OnRecord(s) : LastRecord(s).state.next = a.seq + 1

\* A frame that a journal has admitted carries the next number, and the
\* Executor admits only what the Broker has acknowledged.
PendingIsNext ==
  \A s \in Service : file[s].records # <<>> =>
    LET f == LastRecord(s).state.pending
    IN f # None => /\ request[f] # None
                   /\ SeqOf(s, f) = LastRecord(s).state.next
                   /\ s = "executor" => \E b \in OnRecord("broker") : b.frame = f

\* What a service is working on is what it admitted or has on record.
StageIsRecorded ==
  \A s \in Service :
    /\ stage[s].at = "admitted" => mem[s].state.pending = stage[s].frame
    /\ stage[s].at = "forward" =>
         s = "broker" /\ stage[s].ack \in OnRecord(s) /\ stage[s].ack.frame = stage[s].frame
    /\ stage[s].at = "answer" =>
         /\ stage[s].ack \in OnRecord(s)
         /\ stage[s].executor # None => stage[s].executor \in OnRecord("executor")

\* The inductive invariant.
IInv ==
  /\ TypeOK
  /\ Chained /\ JournalSize /\ RunningIsHeld /\ WorkingIsRunning
  /\ RecordedAcks /\ Contiguous /\ PendingIsNext /\ StageIsRecorded

USE IpcAssumption, OptionAssumption

-----------------------------------------------------------------------------
(* Journals *)

\* What Append does to length, domain and elements.
LEMMA AppendFacts ==
  ASSUME NEW S, NEW q \in Seq(S), NEW r \in S
  PROVE  /\ Append(q, r) \in Seq(S) /\ Append(q, r) # <<>>
         /\ Len(q) \in Nat /\ Len(Append(q, r)) = Len(q) + 1
         /\ DOMAIN q = 1 .. Len(q) /\ DOMAIN Append(q, r) = 1 .. (Len(q) + 1)
         /\ Append(q, r)[Len(q) + 1] = r
         /\ \A i \in 1 .. Len(q) : q[i] \in S /\ Append(q, r)[i] = q[i]
         /\ q # <<>> <=> Len(q) > 0
  BY AppendProperties, LenProperties, ElementOfSeq, EmptySeq

\* What TypeOK says of a journal, field by field.
LEMMA FileFacts ==
  ASSUME TypeOK, NEW s \in Service
  PROVE  /\ file[s] = [exists |-> file[s].exists, records |-> file[s].records, torn |-> file[s].torn]
         /\ file[s].exists \in BOOLEAN /\ file[s].torn \in BOOLEAN
         /\ file[s].records \in Seq(JournalRecord)
         /\ Len(file[s].records) \in Nat /\ DOMAIN file[s].records = 1 .. Len(file[s].records)
         /\ file[s].records # <<>> =>
              /\ Len(file[s].records) > 0
              /\ LastRecord(s) \in JournalRecord
              /\ LastRecord(s).state \in LedgerState
              /\ LastRecord(s).state.lastAck # None => LastRecord(s).state.lastAck \in OnRecord(s)
<1>1. file[s] \in File
  BY DEF TypeOK
<1>2. /\ file[s] = [exists |-> file[s].exists, records |-> file[s].records, torn |-> file[s].torn]
      /\ file[s].exists \in BOOLEAN /\ file[s].torn \in BOOLEAN
      /\ file[s].records \in Seq(JournalRecord)
  BY <1>1 DEF File
<1>3. Len(file[s].records) \in Nat /\ DOMAIN file[s].records = 1 .. Len(file[s].records)
  BY <1>2, LenProperties
<1>4. ASSUME file[s].records # <<>>
      PROVE  Len(file[s].records) > 0 /\ LastRecord(s) \in JournalRecord
  BY <1>2, <1>3, <1>4, EmptySeq, ElementOfSeq DEF LastRecord
<1>5. ASSUME file[s].records # <<>>
      PROVE  /\ LastRecord(s).state \in LedgerState
             /\ LastRecord(s).state.lastAck # None => LastRecord(s).state.lastAck \in OnRecord(s)
  BY <1>3, <1>4, <1>5 DEF JournalRecord, LastRecord, OnRecord
<1> QED
  BY <1>2, <1>3, <1>4, <1>5

\* What a service that runs or works can rely on.
LEMMA HeldFacts ==
  ASSUME IInv, NEW s \in Service, Running(s) \/ stage[s] # Idle
  PROVE  /\ Running(s) /\ Held(s)
         /\ mem[s] \in Ledger /\ mem[s].state \in LedgerState
         /\ mem[s].state = LastRecord(s).state /\ mem[s].digest = Len(file[s].records)
         /\ mem[s].state.next \in 1 .. (MaxSeq + 1)
         /\ mem[s].state.pending \in Frame \cup {None}
         /\ mem[s].state.lastAck \in Ack \cup {None}
         /\ mem[s].state.quarantined = FALSE
<1>1. Running(s) /\ Held(s)
  BY DEF IInv, RunningIsHeld, WorkingIsRunning
<1>2. mem[s] \in Ledger
  BY <1>1 DEF Running, IInv, TypeOK
<1>3. mem[s].state \in LedgerState
  BY <1>2 DEF Ledger
<1>4. mem[s].state = LastRecord(s).state /\ mem[s].digest = Len(file[s].records)
  BY <1>1 DEF Held
<1>5. mem[s].state.quarantined = FALSE
  BY <1>1, <1>3 DEF Held, LedgerState
<1> QED
  BY <1>1, <1>2, <1>3, <1>4, <1>5 DEF LedgerState

\* An append to the journal of a running service, however it ends.
Appends(s, st, o) ==
  /\ Held(s)
  /\ Fits(s, o)
  /\ file' = [file EXCEPT ![s] = Appended(s, st, o)]

\* What a write to a journal leaves in the file, for each outcome of the write.
LEMMA Written ==
  ASSUME IInv, NEW s \in Service, NEW st \in LedgerState, NEW o \in Outcome,
         Appends(s, st, o)
  PROVE  /\ file' \in [Service -> File]
         /\ Chained' /\ JournalSize'
         /\ \A t \in Service \ {s} : file'[t] = file[t]
         /\ file'[s].exists /\ file'[s].records # <<>>
         /\ o \notin {"ok", "kept"} => file'[s].records = file[s].records
         /\ o \in {"ok", "kept"} =>
              /\ Len(file[s].records) + 1 \in 0 .. MaxRecords
              /\ ~file'[s].torn
              /\ Len(file'[s].records) = Len(file[s].records) + 1
              /\ file'[s].records[Len(file'[s].records)].state = st
              /\ file'[s].records[Len(file'[s].records)] = [prev |-> mem[s].digest, state |-> st]
              /\ \A i \in DOMAIN file[s].records : file'[s].records[i] = file[s].records[i]
              /\ DOMAIN file'[s].records = 1 .. (Len(file[s].records) + 1)
<1> DEFINE r == [prev |-> mem[s].digest, state |-> st]
           q == file[s].records
<1>1. /\ file[s] = [exists |-> file[s].exists, records |-> q, torn |-> file[s].torn]
      /\ q \in Seq(JournalRecord) /\ Len(q) \in Nat /\ q # <<>> /\ file[s].exists = TRUE
      /\ file[s].torn = FALSE /\ mem[s].digest = Len(q) /\ DOMAIN q = 1 .. Len(q)
  <2>1. TypeOK /\ file[s].exists /\ q # <<>> /\ ~file[s].torn
    BY DEF IInv, Held, Appends
  <2>2. mem[s].digest = Len(q)
    BY DEF Held, Appends
  <2>3. file[s].exists \in BOOLEAN /\ file[s].torn \in BOOLEAN
    BY <2>1, FileFacts
  <2> QED
    BY <2>1, <2>2, <2>3, FileFacts
<1>2. file'[s] = Appended(s, st, o) /\ \A t \in Service \ {s} : file'[t] = file[t]
  BY DEF IInv, TypeOK, Appends
<1>3. CASE o \in {"ok", "kept"}
  <2>1. file'[s] = [exists |-> TRUE, records |-> Append(q, r), torn |-> FALSE]
    BY <1>1, <1>2, <1>3 DEF Appended
  <2>2. Len(q) < MaxRecords
    BY <1>3 DEF Fits, Appends
  <2>3. r \in JournalRecord
    BY <1>1, <2>2 DEF JournalRecord
  <2>4. /\ Append(q, r) \in Seq(JournalRecord) /\ Append(q, r) # <<>>
        /\ Len(Append(q, r)) = Len(q) + 1 /\ DOMAIN Append(q, r) = 1 .. (Len(q) + 1)
        /\ Append(q, r)[Len(q) + 1] = r
        /\ \A i \in 1 .. Len(q) : Append(q, r)[i] = q[i]
    BY <1>1, <2>3, AppendFacts
  <2>5. file' \in [Service -> File]
    BY <1>2, <2>1, <2>4 DEF File, IInv, TypeOK, Appends
  <2>6. Chained'
    <3> SUFFICES ASSUME NEW t \in Service, NEW i \in DOMAIN file'[t].records
                 PROVE  file'[t].records[i].prev = i - 1
      BY DEF Chained
    <3>1. CASE t # s
      BY <3>1, <1>2 DEF IInv, Chained
    <3>2. CASE t = s
      <4>1. file'[t].records = Append(q, r) /\ i \in 1 .. (Len(q) + 1)
        BY <3>2, <2>1, <2>4
      <4>2. CASE i = Len(q) + 1
        BY <4>1, <4>2, <2>4, <1>1
      <4>3. CASE i \in 1 .. Len(q)
        BY <4>1, <4>3, <2>4, <1>1 DEF IInv, Chained
      <4> QED
        BY <4>1, <4>2, <4>3, <1>1
    <3> QED
      BY <3>1, <3>2
  <2>7. JournalSize'
    BY <1>1, <1>2, <2>1, <2>2, <2>4 DEF IInv, JournalSize
  <2>8. file'[s].records = Append(q, r) /\ file'[s].exists = TRUE /\ file'[s].torn = FALSE
    BY <2>1
  <2>9. file'[s].records[Len(file'[s].records)] = r
    BY <2>4, <2>8
  <2> QED
    BY <1>1, <1>2, <1>3, <2>2, <2>4, <2>5, <2>6, <2>7, <2>8, <2>9
<1>4. CASE o \in {"torn", "lost"}
  <2>1. file'[s] = [exists |-> TRUE, records |-> q, torn |-> o = "torn"]
    BY <1>1, <1>2, <1>4 DEF Appended
  <2>2. file' \in [Service -> File]
    BY <1>1, <1>2, <2>1 DEF File, IInv, TypeOK, Appends
  <2>3. Chained' /\ JournalSize'
    BY <1>2, <2>1 DEF IInv, Chained, JournalSize
  <2> QED
    BY <1>1, <1>2, <1>4, <2>1, <2>2, <2>3
<1> QED
  BY <1>3, <1>4 DEF Outcome

\* What such an append does to the last record and to what is on record.
LEMMA WrittenRecord ==
  ASSUME IInv, NEW s \in Service, NEW st \in LedgerState, NEW o \in Outcome,
         Appends(s, st, o)
  PROVE  /\ \A t \in Service \ {s} : OnRecord(t)' = OnRecord(t) /\ LastRecord(t)' = LastRecord(t)
         /\ o \notin {"ok", "kept"} => OnRecord(s)' = OnRecord(s) /\ LastRecord(s)' = LastRecord(s)
         /\ o \in {"ok", "kept"} =>
              /\ OnRecord(s)' = (OnRecord(s) \cup {st.lastAck}) \ {None}
              /\ LastRecord(s)'.state = st
<1> DEFINE n == Len(file[s].records)
           q == file'[s].records
<1>0. n \in Nat /\ DOMAIN file[s].records = 1 .. n
  BY FileFacts DEF IInv
<1>1. \A t \in Service \ {s} : file'[t] = file[t]
  BY Written
<1>2. \A t \in Service \ {s} : OnRecord(t)' = OnRecord(t) /\ LastRecord(t)' = LastRecord(t)
  BY <1>1 DEF OnRecord, LastRecord
<1>3. ASSUME o \notin {"ok", "kept"}
      PROVE  OnRecord(s)' = OnRecord(s) /\ LastRecord(s)' = LastRecord(s)
  <2>1. file'[s].records = file[s].records
    BY <1>3, Written
  <2> QED
    BY <2>1 DEF OnRecord, LastRecord
<1>4. ASSUME o \in {"ok", "kept"}
      PROVE  /\ OnRecord(s)' = (OnRecord(s) \cup {st.lastAck}) \ {None}
             /\ LastRecord(s)'.state = st
  <2>1. Len(q) = n + 1 /\ DOMAIN q = 1 .. (n + 1) /\ q[Len(q)].state = st
    BY <1>4, Written
  <2>2. \A i \in 1 .. n : q[i] = file[s].records[i]
    BY <1>4, <1>0, Written
  <2>3. LastRecord(s)'.state = st
    BY <2>1 DEF LastRecord
  <2> HIDE DEF n, q
  <2>4. {q[i].state.lastAck : i \in 1 .. (n + 1)}
          = {file[s].records[i].state.lastAck : i \in 1 .. n} \cup {st.lastAck}
    BY <1>0, <2>1, <2>2
  <2>5. OnRecord(s)' = {q[i].state.lastAck : i \in 1 .. (n + 1)} \ {None}
    BY <2>1 DEF OnRecord, q
  <2> QED
    BY <1>0, <2>3, <2>4, <2>5 DEF OnRecord
<1> QED
  BY <1>2, <1>3, <1>4

\* The parts of the invariant that are about requests and journals alone.
JournalInv == Chained /\ JournalSize /\ RecordedAcks /\ Contiguous /\ PendingIsNext

\* Nothing on record is touched by a step that writes no journal.
LEMMA NothingWritten ==
  ASSUME IInv, UNCHANGED <<request, file, nextAck>>
  PROVE  /\ JournalInv'
         /\ \A s \in Service : OnRecord(s)' = OnRecord(s) /\ LastRecord(s)' = LastRecord(s)
         /\ \A s \in Service : Running(s) /\ mem'[s] = mem[s] => Held(s)'
<1>1. \A s \in Service : OnRecord(s)' = OnRecord(s) /\ LastRecord(s)' = LastRecord(s)
  BY DEF OnRecord, LastRecord
<1>2. Chained' /\ JournalSize'
  BY DEF IInv, Chained, JournalSize
<1>3. RecordedAcks'
  BY <1>1 DEF IInv, RecordedAcks, SeqOf
<1>4. Contiguous'
  BY <1>1 DEF IInv, Contiguous
<1>5. PendingIsNext'
  BY <1>1 DEF IInv, PendingIsNext, SeqOf, Service
<1>6. \A s \in Service : Running(s) /\ mem'[s] = mem[s] => Held(s)'
  BY <1>1 DEF IInv, RunningIsHeld, Held
<1> QED
  BY <1>1, <1>2, <1>3, <1>4, <1>5, <1>6 DEF JournalInv

\* A record that neither completes a frame nor moves the number.
LEMMA QuietWrite ==
  ASSUME IInv, NEW s \in Service, NEW st \in LedgerState, NEW o \in Outcome,
         Appends(s, st, o),
         UNCHANGED <<request, nextAck>>,
         st.next = mem[s].state.next, st.lastAck = mem[s].state.lastAck,
         \/ st.pending = mem[s].state.pending
         \/ /\ st.pending \in Frame /\ request[st.pending] # None
            /\ SeqOf(s, st.pending) = mem[s].state.next
            /\ s = "executor" => \E b \in OnRecord("broker") : b.frame = st.pending
  PROVE  JournalInv' /\ \A t \in Service : OnRecord(t)' = OnRecord(t)
<1>0. mem[s].state = LastRecord(s).state /\ file[s].records # <<>>
  BY DEF Held, Appends
<1>6. \A t \in Service \ {s} : file'[t] = file[t]
  BY Written
<1>1. \A t \in Service : OnRecord(t)' = OnRecord(t)
  <2>1. mem[s].state.lastAck # None => mem[s].state.lastAck \in OnRecord(s)
    BY <1>0, FileFacts DEF IInv
  <2>2. None \notin OnRecord(s)
    BY DEF OnRecord
  <2> QED
    BY <2>1, <2>2, WrittenRecord
<1>2. \A t \in Service : LastRecord(t)'.state.next = LastRecord(t).state.next
  BY <1>0, WrittenRecord
<1>3. RecordedAcks'
  BY <1>1, <1>2 DEF IInv, RecordedAcks, SeqOf
<1>4. Contiguous'
  BY <1>1, <1>2 DEF IInv, Contiguous
<1>5. PendingIsNext'
  <2> SUFFICES ASSUME NEW t \in Service, file'[t].records # <<>>,
                      NEW f, f = LastRecord(t)'.state.pending, f # None
               PROVE  /\ request'[f] # None
                      /\ SeqOf(t, f)' = LastRecord(t)'.state.next
                      /\ t = "executor" => \E b \in OnRecord("broker")' : b.frame = f
    BY DEF PendingIsNext, SeqOf
  <2>1. ASSUME LastRecord(t)'.state.pending = LastRecord(t).state.pending, file[t].records # <<>>
        PROVE  /\ request'[f] # None
               /\ SeqOf(t, f)' = LastRecord(t)'.state.next
               /\ t = "executor" => \E b \in OnRecord("broker")' : b.frame = f
    BY <1>1, <1>2, <2>1 DEF IInv, PendingIsNext, SeqOf, Service
  <2>2. CASE t # s
    <3>1. file'[t] = file[t]
      BY <2>2, <1>6
    <3>2. LastRecord(t)' = LastRecord(t)
      BY <2>2, WrittenRecord
    <3>3. LastRecord(t)'.state.pending = LastRecord(t).state.pending /\ file[t].records # <<>>
      BY <3>1, <3>2
    <3> QED
      BY <2>1, <3>3
  <2>3. CASE t = s /\ LastRecord(s)'.state.pending = LastRecord(s).state.pending
    BY <2>1, <2>3, <1>0
  <2>4. CASE t = s /\ LastRecord(s)'.state.pending # LastRecord(s).state.pending
    <3>1. LastRecord(s)'.state = st
      BY <2>4, WrittenRecord
    <3>2. st.pending # mem[s].state.pending
      BY <2>4, <3>1, <1>0
    <3> QED
      BY <2>4, <3>1, <3>2, <1>0, <1>1, <1>2 DEF SeqOf, Service
  <2> QED
    BY <2>2, <2>3, <2>4
<1> QED
  BY <1>1, <1>3, <1>4, <1>5, Written DEF JournalInv

-----------------------------------------------------------------------------
(* Services *)

\* A service's part of the invariant.
ServiceInv(t) ==
  /\ Running(t) => Held(t)
  /\ stage[t] # Idle => Running(t)
  /\ stage[t].at = "admitted" => mem[t].state.pending = stage[t].frame
  /\ stage[t].at = "forward" =>
       t = "broker" /\ stage[t].ack \in OnRecord(t) /\ stage[t].ack.frame = stage[t].frame
  /\ stage[t].at = "answer" =>
       /\ stage[t].ack \in OnRecord(t)
       /\ stage[t].executor # None => stage[t].executor \in OnRecord("executor")

\* The invariant service by service.
LEMMA Parts == IInv <=> TypeOK /\ JournalInv /\ \A t \in Service : ServiceInv(t)
  BY DEF IInv, JournalInv, ServiceInv, RunningIsHeld, WorkingIsRunning, StageIsRecorded

\* The same for the next state.
LEMMA PartsNext ==
  ASSUME TypeOK', JournalInv', \A t \in Service : ServiceInv(t)'
  PROVE  IInv'
  BY DEF IInv, JournalInv, ServiceInv, RunningIsHeld, WorkingIsRunning, StageIsRecorded

\* What TypeOK says of the places of a serve loop.
LEMMA StageFacts ==
  ASSUME TypeOK, NEW t \in Service
  PROVE  /\ stage[t] = Idle <=> stage[t].at = "idle"
         /\ stage[t].at \in {"idle", "admitted", "forward", "answer"}
         /\ stage[t].at = "admitted" => stage[t].frame \in Frame
         /\ stage[t].at = "forward" =>
              stage[t] \in [at : {"forward"}, frame : Frame, ack : Ack,
                            tries : 1 .. MaxTries, connected : BOOLEAN]
         /\ stage[t].at = "answer" =>
              stage[t] \in [at : {"answer"}, frame : Frame, ack : Ack,
                            executor : Ack \cup {None}]
<1>1. stage[t] \in Stage
  BY DEF TypeOK
<1> QED
  BY <1>1 DEF Stage, Idle

\* A step that keeps what is on record leaves a service it does not touch alone,
LEMMA Undisturbed ==
  ASSUME NEW t \in Service, ServiceInv(t), file'[t] = file[t], mem'[t] = mem[t], stage'[t] = stage[t],
         \A u \in Service : OnRecord(u) \subseteq OnRecord(u)'
  PROVE  ServiceInv(t)'
  BY DEF ServiceInv, Held, Running, LastRecord, Service

\* a service that goes down promises nothing any more,
LEMMA WentDown ==
  ASSUME NEW t \in Service, mem'[t] = Down, stage'[t] = Idle
  PROVE  ServiceInv(t)'
  BY DEF ServiceInv, Running, Idle

\* and one that goes back to waiting promises only what its journal holds.
LEMMA WentIdle ==
  ASSUME NEW t \in Service, ServiceInv(t), file'[t] = file[t], mem'[t] = mem[t], stage'[t] = Idle
  PROVE  ServiceInv(t)'
  BY DEF ServiceInv, Held, Running, LastRecord, Idle

\* Taking a connection changes the Broker's stage at most in its flag.
LEMMA ConnectedFacts ==
  ASSUME IInv, NEW s \in Service, NEW f \in Frame, Receives(s, f)
  PROVE  /\ Connected(s) \in [Service -> Stage]
         /\ Connected(s)[s] = Idle
         /\ Running(s) /\ stage[s] = Idle /\ request[f] # None
         /\ \A t \in Service \ {s} :
              \/ Connected(s)[t] = stage[t]
              \/ /\ t = "broker"
                 /\ stage[t].at = "forward" /\ stage[t].frame = f
                 /\ Connected(s)[t].at = "forward" /\ Connected(s)[t] # Idle
                 /\ Connected(s)[t].frame = stage[t].frame /\ Connected(s)[t].ack = stage[t].ack
         /\ s = "executor" => /\ stage["broker"].at = "forward" /\ stage["broker"].frame = f
                              /\ \E b \in OnRecord("broker") : b.frame = f
<1>1. Running(s) /\ stage[s] = Idle /\ request[f] # None
  BY DEF Receives
<1>2. CASE s = "broker"
  BY <1>1, <1>2 DEF Connected, IInv, TypeOK, Service
<1>3. CASE s = "executor"
  <2>1. stage["broker"].at = "forward" /\ stage["broker"].frame = f
    BY <1>3 DEF Receives
  <2>2. stage["broker"] \in [at : {"forward"}, frame : Frame, ack : Ack,
                             tries : 1 .. MaxTries, connected : BOOLEAN]
    BY <2>1, StageFacts DEF IInv, Service
  <2> DEFINE b == [stage["broker"] EXCEPT !.connected = TRUE]
  <2>3. /\ b \in [at : {"forward"}, frame : Frame, ack : Ack,
                  tries : 1 .. MaxTries, connected : BOOLEAN]
        /\ b.at = "forward" /\ b.frame = stage["broker"].frame /\ b.ack = stage["broker"].ack
    BY <2>2
  <2>4. b \in Stage /\ b # Idle
    BY <2>3 DEF Stage, Idle
  <2>5. Connected(s) = [stage EXCEPT !["broker"] = b]
    BY <1>3 DEF Connected
  <2>6. \E a \in OnRecord("broker") : a.frame = f
    BY <2>1 DEF IInv, StageIsRecorded, Service
  <2> HIDE DEF b
  <2>7. Connected(s) \in [Service -> Stage] /\ Connected(s)["broker"] = b
          /\ Connected(s)["executor"] = stage["executor"]
    BY <2>4, <2>5 DEF IInv, TypeOK, Service
  <2> QED
    BY <1>1, <1>3, <2>1, <2>3, <2>4, <2>6, <2>7 DEF Service
<1> QED
  BY <1>2, <1>3 DEF Service

\* The other service while one receives.
LEMMA OtherService ==
  ASSUME IInv, NEW s \in Service, NEW f \in Frame, Receives(s, f), NEW t \in Service \ {s},
         file'[t] = file[t], mem'[t] = mem[t], stage'[t] = Connected(s)[t],
         \A u \in Service : OnRecord(u) \subseteq OnRecord(u)'
  PROVE  ServiceInv(t)'
<1>1. ServiceInv(t)
  BY Parts
<1>2. CASE stage'[t] = stage[t]
  BY <1>1, <1>2, Undisturbed
<1>3. CASE stage'[t] # stage[t]
  <2>1. /\ t = "broker" /\ stage[t].at = "forward" /\ stage[t].frame = f
        /\ stage'[t].at = "forward" /\ stage'[t] # Idle
        /\ stage'[t].frame = stage[t].frame /\ stage'[t].ack = stage[t].ack
    BY <1>3, ConnectedFacts
  <2>2. stage[t] # Idle
    BY <2>1 DEF Idle
  <2> QED
    BY <1>1, <2>1, <2>2 DEF ServiceInv, Held, Running, LastRecord, Service
<1> QED
  BY <1>2, <1>3

-----------------------------------------------------------------------------
(* The steps *)

\* Services that are down over missing journals satisfy the invariant.
LEMMA InitHolds == Init => IInv
<1> SUFFICES ASSUME Init PROVE IInv
  OBVIOUS
<1> USE DEF Init
<1>1. \A s \in Service : /\ file[s] = [exists |-> FALSE, records |-> <<>>, torn |-> FALSE]
                         /\ mem[s] = Down /\ stage[s] = Idle
  OBVIOUS
<1>2. <<>> \in Seq(JournalRecord) /\ DOMAIN <<>> = {}
  BY EmptySeq
<1>3. TypeOK
  <2>1. file \in [Service -> File]
    BY <1>2 DEF File
  <2>2. request \in [Frame -> Request \cup {None}] /\ mem \in [Service -> Ledger \cup {Down}]
    OBVIOUS
  <2>3. stage \in [Service -> Stage]
    BY DEF Stage
  <2>4. nextAck \in 1 .. MaxAcks + 1
    OBVIOUS
  <2> QED
    BY <2>1, <2>2, <2>3, <2>4 DEF TypeOK
<1>4. \A s \in Service : OnRecord(s) = {}
  BY <1>1, <1>2 DEF OnRecord
<1>5. JournalInv
  BY <1>1, <1>2, <1>4
     DEF JournalInv, Chained, JournalSize, RecordedAcks, Contiguous, PendingIsNext
<1>6. \A s \in Service : ServiceInv(s)
  BY <1>1 DEF ServiceInv, Running, Idle
<1> QED
  BY <1>3, <1>5, <1>6, Parts

\* Sign keeps the invariant.
LEMMA SignKeeps ==
  ASSUME IInv, NEW f \in Frame, NEW r \in Request, Sign(f, r)
  PROVE  IInv'
<1> USE DEF Sign
<1>1. TypeOK'
  BY DEF IInv, TypeOK
<1>2. request'[f] = r /\ \A g \in Frame \ {f} : request'[g] = request[g]
  BY DEF IInv, TypeOK
<1>3. \A s \in Service : OnRecord(s)' = OnRecord(s) /\ LastRecord(s)' = LastRecord(s)
  BY DEF OnRecord, LastRecord
<1>4. \A s \in Service : \A g \in Frame : request[g] # None => request'[g] = request[g] /\ SeqOf(s, g)' = SeqOf(s, g)
  BY <1>2 DEF SeqOf
<1>5. RecordedAcks'
  <2> SUFFICES ASSUME NEW s \in Service, NEW a \in OnRecord(s)
               PROVE  /\ a \in Ack /\ request'[a.frame] # None /\ a.seq = SeqOf(s, a.frame)'
                      /\ a.id < nextAck' /\ a.seq < LastRecord(s)'.state.next
    BY <1>3 DEF RecordedAcks
  <2>1. /\ a \in Ack /\ request[a.frame] # None /\ a.seq = SeqOf(s, a.frame)
        /\ a.id < nextAck /\ a.seq < LastRecord(s).state.next
    BY DEF IInv, RecordedAcks
  <2>2. a.frame \in Frame
    BY <2>1 DEF Ack
  <2> QED
    BY <1>3, <1>4, <2>1, <2>2
<1>6. PendingIsNext'
  <2> SUFFICES ASSUME NEW s \in Service, file[s].records # <<>>,
                      NEW g, g = LastRecord(s).state.pending, g # None
               PROVE  /\ request'[g] # None
                      /\ SeqOf(s, g)' = LastRecord(s).state.next
                      /\ s = "executor" => \E b \in OnRecord("broker") : b.frame = g
    BY <1>3 DEF PendingIsNext, Service
  <2>1. g \in Frame
    BY FileFacts DEF IInv, LedgerState
  <2>2. /\ request[g] # None
        /\ SeqOf(s, g) = LastRecord(s).state.next
        /\ s = "executor" => \E b \in OnRecord("broker") : b.frame = g
    BY DEF IInv, PendingIsNext
  <2> QED
    BY <1>4, <2>1, <2>2
<1>7. Chained' /\ JournalSize' /\ Contiguous'
  BY <1>3 DEF IInv, Chained, JournalSize, Contiguous
<1>8. \A s \in Service : ServiceInv(s)'
  BY <1>3, Parts, Undisturbed
<1> QED
  BY <1>1, <1>5, <1>6, <1>7, <1>8, PartsNext DEF JournalInv

\* What holds after any step that writes no journal and touches no request.
LEMMA QuietStep ==
  ASSUME IInv, UNCHANGED <<request, file, nextAck>>,
         accepted' \subseteq [broker : Ack, executor : Ack \cup {None}],
         mem' \in [Service -> Ledger \cup {Down}], stage' \in [Service -> Stage],
         \A t \in Service : ServiceInv(t)'
  PROVE  IInv'
<1>1. TypeOK'
  BY DEF IInv, TypeOK
<1> QED
  BY <1>1, NothingWritten, PartsNext

\* Reopen keeps the invariant.
LEMMA ReopenKeeps ==
  ASSUME IInv, NEW s \in Service, Reopen(s)
  PROVE  IInv'
<1> USE DEF Reopen
<1> DEFINE l == [state |-> LastRecord(s).state, digest |-> Len(file[s].records)]
<1>1. file[s].exists /\ file[s].records # <<>> /\ ~file[s].torn /\ ~LastRecord(s).state.quarantined
  BY DEF Loads
<1>2. l \in Ledger
  <2>1. LastRecord(s).state \in LedgerState /\ Len(file[s].records) \in Nat
    BY <1>1, FileFacts DEF IInv
  <2>2. Len(file[s].records) <= MaxRecords
    BY DEF IInv, JournalSize
  <2> QED
    BY <2>1, <2>2 DEF Ledger
<1>3. mem' \in [Service -> Ledger \cup {Down}] /\ stage' \in [Service -> Stage]
  BY <1>2 DEF IInv, TypeOK, Stage
<1>4. mem'[s] = l /\ stage'[s] = Idle
  BY DEF IInv, TypeOK
<1>5. ServiceInv(s)'
  BY <1>1, <1>4 DEF ServiceInv, Held, Running, LastRecord, Idle
<1>6. \A t \in Service \ {s} : ServiceInv(t)'
  <2> TAKE t \in Service \ {s}
  <2>1. mem'[t] = mem[t] /\ stage'[t] = stage[t] /\ file'[t] = file[t]
    BY DEF IInv, TypeOK
  <2> QED
    BY <2>1, NothingWritten, Parts, Undisturbed
<1> QED
  BY <1>3, <1>5, <1>6, QuietStep DEF IInv, TypeOK

\* CreateLedger keeps the invariant.
LEMMA CreateLedgerKeeps ==
  ASSUME IInv, NEW s \in Service, CreateLedger(s)
  PROVE  IInv' /\ \A t \in Service : OnRecord(t)' = OnRecord(t)
<1> DEFINE r == [prev |-> 0, state |-> InitialState]
<1>1. InitialState \in LedgerState /\ InitialState.lastAck = None /\ InitialState.pending = None
        /\ InitialState.quarantined = FALSE
  BY DEF InitialState, LedgerState
<1>2. r \in JournalRecord
  BY <1>1 DEF JournalRecord
<1>3. <<r>> \in Seq(JournalRecord) /\ <<>> \in Seq(JournalRecord) /\ Len(<<r>>) = 1 /\ <<r>>[1] = r
        /\ DOMAIN <<r>> = {1} /\ DOMAIN <<>> = {} /\ Len(<<>>) = 0 /\ <<r>> # <<>>
  BY <1>2
<1>4. PICK o \in Outcome :
        /\ file' = [file EXCEPT ![s] =
             [exists |-> TRUE, records |-> IF o \in {"ok", "kept"} THEN <<r>> ELSE <<>>, torn |-> o = "torn"]]
        /\ mem' = [mem EXCEPT ![s] =
             IF o = "ok" THEN [state |-> InitialState, digest |-> 1] ELSE Down]
  BY DEF CreateLedger
<1>5. /\ ~file[s].exists /\ stage' = [stage EXCEPT ![s] = Idle]
      /\ UNCHANGED <<request, nextAck, accepted>>
  BY DEF CreateLedger
<1>6. /\ file'[s].exists = TRUE /\ file'[s].torn = (o = "torn")
      /\ file'[s].records = IF o \in {"ok", "kept"} THEN <<r>> ELSE <<>>
      /\ mem'[s] = IF o = "ok" THEN [state |-> InitialState, digest |-> 1] ELSE Down
      /\ stage'[s] = Idle
      /\ \A t \in Service \ {s} : file'[t] = file[t] /\ mem'[t] = mem[t] /\ stage'[t] = stage[t]
  BY <1>4, <1>5 DEF IInv, TypeOK
<1>7. TypeOK'
  <2>1. file' \in [Service -> File]
    BY <1>3, <1>4 DEF IInv, TypeOK, File
  <2>2. mem' \in [Service -> Ledger \cup {Down}]
    BY <1>1, <1>4 DEF IInv, TypeOK, Ledger
  <2>3. stage' \in [Service -> Stage]
    BY <1>5 DEF IInv, TypeOK, Stage
  <2> QED
    BY <1>5, <2>1, <2>2, <2>3 DEF IInv, TypeOK
<1>8. file[s].records = <<>>
  BY <1>5 DEF IInv, JournalSize
<1>9. \A t \in Service : OnRecord(t)' = OnRecord(t)
  <2>1. OnRecord(s) = {} /\ OnRecord(s)' = {}
    BY <1>1, <1>3, <1>6, <1>8 DEF OnRecord
  <2>2. \A t \in Service \ {s} : OnRecord(t)' = OnRecord(t)
    BY <1>6 DEF OnRecord
  <2> QED
    BY <2>1, <2>2
<1>10. \A t \in Service \ {s} : LastRecord(t)' = LastRecord(t)
  BY <1>6 DEF LastRecord
<1>11. OnRecord(s) = {}
  BY <1>3, <1>8 DEF OnRecord
<1>12. Chained' /\ JournalSize'
  <2>1. /\ \A i \in DOMAIN file'[s].records : file'[s].records[i].prev = i - 1
        /\ Len(file'[s].records) <= MaxRecords
    BY <1>3, <1>6
  <2>2. Chained'
    BY <1>6, <2>1 DEF IInv, Chained
  <2>3. JournalSize'
    BY <1>6, <2>1 DEF IInv, JournalSize
  <2> QED
    BY <2>2, <2>3
<1>13. RecordedAcks'
  BY <1>5, <1>9, <1>10, <1>11 DEF IInv, RecordedAcks, SeqOf
<1>14. Contiguous'
  BY <1>9, <1>10, <1>11 DEF IInv, Contiguous
<1>15. PendingIsNext'
  <2>1. file'[s].records # <<>> => LastRecord(s)'.state.pending = None
    BY <1>1, <1>3, <1>6 DEF LastRecord
  <2> QED
    BY <2>1, <1>5, <1>6, <1>9, <1>10 DEF IInv, PendingIsNext, SeqOf, Service
<1>16. ServiceInv(s)'
  <2>1. CASE o = "ok"
    <3>1. /\ file'[s].exists /\ ~file'[s].torn /\ file'[s].records = <<r>>
          /\ mem'[s] = [state |-> InitialState, digest |-> 1]
      BY <1>6, <2>1
    <3>2. LastRecord(s)' = r
      BY <1>3, <3>1 DEF LastRecord
    <3>3. mem'[s].state = InitialState
      BY <3>1
    <3>4. Held(s)'
      BY <1>1, <1>3, <3>1, <3>2, <3>3 DEF Held
    <3> QED
      BY <1>6, <3>4 DEF ServiceInv, Idle
  <2>2. CASE o # "ok"
    BY <1>6, <2>2, WentDown
  <2> QED
    BY <2>1, <2>2
<1>17. \A t \in Service \ {s} : ServiceInv(t)'
  BY <1>6, <1>9, Parts, Undisturbed
<1> QED
  BY <1>7, <1>9, <1>12, <1>13, <1>14, <1>15, <1>16, <1>17, PartsNext DEF JournalInv

\* Crash keeps the invariant.
LEMMA CrashKeeps ==
  ASSUME IInv, NEW s \in Service, Crash(s)
  PROVE  IInv'
<1> USE DEF Crash, Stopped
<1>1. mem' \in [Service -> Ledger \cup {Down}] /\ stage' \in [Service -> Stage]
  BY DEF IInv, TypeOK, Stage
<1>2. mem'[s] = Down /\ stage'[s] = Idle
        /\ \A t \in Service \ {s} : mem'[t] = mem[t] /\ stage'[t] = stage[t] /\ file'[t] = file[t]
  BY DEF IInv, TypeOK
<1>3. \A t \in Service : ServiceInv(t)'
  BY <1>2, NothingWritten, Parts, Undisturbed, WentDown
<1> QED
  BY <1>1, <1>3, QuietStep DEF IInv, TypeOK

\* AttemptFails keeps the invariant.
LEMMA AttemptFailsKeeps ==
  ASSUME IInv, AttemptFails
  PROVE  IInv'
<1> USE DEF AttemptFails
<1>0. "broker" \in Service /\ "executor" \in Service /\ stage["broker"].at = "forward"
  BY DEF Service
<1>1. stage["broker"] \in [at : {"forward"}, frame : Frame, ack : Ack,
                           tries : 1 .. MaxTries, connected : BOOLEAN]
  BY <1>0, StageFacts DEF IInv
<1>2. CASE stage["broker"].tries < MaxTries
  <2> DEFINE b == [at |-> "forward", frame |-> stage["broker"].frame, ack |-> stage["broker"].ack,
                   tries |-> stage["broker"].tries + 1, connected |-> FALSE]
  <2>1. /\ b \in [at : {"forward"}, frame : Frame, ack : Ack,
                  tries : 1 .. MaxTries, connected : BOOLEAN]
        /\ b.at = "forward" /\ b.frame = stage["broker"].frame /\ b.ack = stage["broker"].ack
    BY <1>1, <1>2
  <2>2. b \in Stage /\ b # Idle
    BY <2>1 DEF Stage, Idle
  <2>3. stage' = [stage EXCEPT !["broker"] = b] /\ UNCHANGED mem
    BY <1>0, <1>1, <1>2 DEF IInv, TypeOK
  <2> HIDE DEF b
  <2>4. stage' \in [Service -> Stage] /\ stage'["broker"] = b /\ stage'["executor"] = stage["executor"]
    BY <2>2, <2>3 DEF IInv, TypeOK, Service
  <2>5. stage["broker"] # Idle
    BY <1>0 DEF Idle
  <2>6. ServiceInv("broker")'
    BY <1>0, <2>1, <2>2, <2>3, <2>4, <2>5, NothingWritten, Parts
       DEF ServiceInv, Held, Running, LastRecord
  <2>7. ServiceInv("executor")'
    BY <1>0, <2>3, <2>4, NothingWritten, Parts, Undisturbed
  <2> QED
    BY <2>3, <2>4, <2>6, <2>7, QuietStep DEF IInv, TypeOK, Service
<1>3. CASE ~(stage["broker"].tries < MaxTries)
  <2>1. stage' = [stage EXCEPT !["broker"] = Idle] /\ mem' = [mem EXCEPT !["broker"] = Down]
    BY <1>3 DEF Stopped
  <2>2. mem' \in [Service -> Ledger \cup {Down}] /\ stage' \in [Service -> Stage]
    BY <2>1 DEF IInv, TypeOK, Stage
  <2>3. mem'["broker"] = Down /\ stage'["broker"] = Idle
          /\ mem'["executor"] = mem["executor"] /\ stage'["executor"] = stage["executor"]
    BY <2>1 DEF IInv, TypeOK, Service
  <2>4. ServiceInv("broker")' /\ ServiceInv("executor")'
    BY <1>0, <2>3, NothingWritten, Parts, Undisturbed, WentDown
  <2> QED
    BY <2>2, <2>4, QuietStep DEF IInv, TypeOK, Service
<1> QED
  BY <1>2, <1>3

\* AnswerBroker keeps the invariant.
LEMMA AnswerBrokerKeeps ==
  ASSUME IInv, AnswerBroker
  PROVE  IInv'
<1> USE DEF AnswerBroker
<1>0. "broker" \in Service /\ "executor" \in Service /\ stage["executor"].at = "answer"
  BY DEF Service
<1>1. ServiceInv("broker") /\ ServiceInv("executor")
  BY <1>0, Parts
<1>2. CASE stage["broker"].at = "forward" /\ stage["broker"].connected
  <2> DEFINE b == [at |-> "answer", frame |-> stage["broker"].frame,
                   ack |-> stage["broker"].ack, executor |-> stage["executor"].ack]
  <2>1. stage["broker"].frame \in Frame /\ stage["broker"].ack \in Ack /\ stage["executor"].ack \in Ack
    <3>1. stage["broker"] \in [at : {"forward"}, frame : Frame, ack : Ack,
                               tries : 1 .. MaxTries, connected : BOOLEAN]
      BY <1>0, <1>2, StageFacts DEF IInv
    <3>2. stage["executor"] \in [at : {"answer"}, frame : Frame, ack : Ack, executor : Ack \cup {None}]
      BY <1>0, StageFacts DEF IInv
    <3> QED
      BY <3>1, <3>2
  <2>2. /\ b \in Stage /\ b.at = "answer" /\ b.ack = stage["broker"].ack /\ b.executor = stage["executor"].ack
    BY <2>1 DEF Stage
  <2>3. /\ stage' = [[stage EXCEPT !["broker"] = b] EXCEPT !["executor"] = Idle]
        /\ UNCHANGED mem
    BY <1>2
  <2> HIDE DEF b
  <2>4. stage' \in [Service -> Stage] /\ stage'["broker"] = b /\ stage'["executor"] = Idle
    BY <2>2, <2>3 DEF IInv, TypeOK, Service, Stage
  <2>5. /\ Running("broker") /\ stage["broker"].ack \in OnRecord("broker")
        /\ stage["executor"].ack \in OnRecord("executor")
    BY <1>0, <1>1, <1>2 DEF ServiceInv, Idle
  <2>6. ServiceInv("broker")'
    BY <1>0, <1>1, <2>2, <2>3, <2>4, <2>5, NothingWritten
       DEF ServiceInv, Held, Running, LastRecord
  <2>7. ServiceInv("executor")'
    BY <1>0, <1>1, <2>3, <2>4, WentIdle
  <2> QED
    BY <2>3, <2>4, <2>6, <2>7, QuietStep DEF IInv, TypeOK, Service
<1>3. CASE ~(stage["broker"].at = "forward" /\ stage["broker"].connected)
  <2>1. PICK up \in BOOLEAN : mem' = IF up THEN mem ELSE [mem EXCEPT !["executor"] = Down]
    BY <1>3
  <2>2. stage' = [stage EXCEPT !["executor"] = Idle]
    BY <1>3 DEF Stopped
  <2>3. mem' \in [Service -> Ledger \cup {Down}] /\ stage' \in [Service -> Stage]
    BY <2>1, <2>2 DEF IInv, TypeOK, Stage
  <2>4. /\ mem'["executor"] \in {mem["executor"], Down} /\ stage'["executor"] = Idle
        /\ mem'["broker"] = mem["broker"] /\ stage'["broker"] = stage["broker"]
    BY <2>1, <2>2 DEF IInv, TypeOK, Service
  <2>5. ServiceInv("executor")'
    BY <1>0, <1>1, <2>4, WentIdle, WentDown
  <2>6. ServiceInv("broker")'
    BY <1>0, <1>1, <2>4, NothingWritten, Undisturbed
  <2> QED
    BY <2>3, <2>5, <2>6, QuietStep DEF IInv, TypeOK, Service
<1> QED
  BY <1>2, <1>3

\* AnswerMaster keeps the invariant.
LEMMA AnswerMasterKeeps ==
  ASSUME IInv, AnswerMaster
  PROVE  IInv'
<1> USE DEF AnswerMaster
<1>0. "broker" \in Service /\ "executor" \in Service /\ stage["broker"].at = "answer"
  BY DEF Service
<1>1. ServiceInv("broker") /\ ServiceInv("executor")
  BY <1>0, Parts
<1>2. stage' = [stage EXCEPT !["broker"] = Idle] /\ UNCHANGED mem
  BY DEF Stopped
<1>3. stage["broker"].ack \in Ack /\ stage["broker"].executor \in Ack \cup {None}
  <2>1. stage["broker"] \in [at : {"answer"}, frame : Frame, ack : Ack, executor : Ack \cup {None}]
    BY <1>0, StageFacts DEF IInv
  <2> QED
    BY <2>1
<1>4. accepted' \subseteq [broker : Ack, executor : Ack \cup {None}]
  BY <1>3 DEF IInv, TypeOK
<1>5. stage' \in [Service -> Stage] /\ stage'["broker"] = Idle /\ stage'["executor"] = stage["executor"]
  BY <1>2 DEF IInv, TypeOK, Stage, Service
<1>6. ServiceInv("broker")' /\ ServiceInv("executor")'
  BY <1>0, <1>1, <1>2, <1>5, NothingWritten, WentIdle, Undisturbed
<1> QED
  BY <1>2, <1>4, <1>5, <1>6, QuietStep DEF IInv, TypeOK, Service

\* AnswerLost keeps the invariant.
LEMMA AnswerLostKeeps ==
  ASSUME IInv, AnswerLost
  PROVE  IInv'
<1> USE DEF AnswerLost
<1>0. "broker" \in Service /\ "executor" \in Service
  BY DEF Service
<1>1. ServiceInv("broker") /\ ServiceInv("executor")
  BY <1>0, Parts
<1>2. PICK up \in BOOLEAN : mem' = IF up THEN mem ELSE [mem EXCEPT !["broker"] = Down]
  OBVIOUS
<1>3. stage' = [stage EXCEPT !["broker"] = Idle]
  BY DEF Stopped
<1>4. mem' \in [Service -> Ledger \cup {Down}] /\ stage' \in [Service -> Stage]
  BY <1>2, <1>3 DEF IInv, TypeOK, Stage
<1>5. /\ mem'["broker"] \in {mem["broker"], Down} /\ stage'["broker"] = Idle
      /\ mem'["executor"] = mem["executor"] /\ stage'["executor"] = stage["executor"]
  BY <1>2, <1>3 DEF IInv, TypeOK, Service
<1>6. ServiceInv("broker")'
  BY <1>0, <1>1, <1>5, WentIdle, WentDown
<1>7. ServiceInv("executor")'
  BY <1>0, <1>1, <1>5, NothingWritten, Undisturbed
<1> QED
  BY <1>4, <1>6, <1>7, QuietStep DEF IInv, TypeOK, Service

\* Where a service goes once it holds the acknowledgement of a frame.
LEMMA AfterAckFacts ==
  ASSUME NEW s \in Service, NEW f \in Frame, NEW ack \in Ack, ack.frame = f
  PROVE  /\ AfterAck(s, f, ack) \in Stage /\ AfterAck(s, f, ack) # Idle
         /\ AfterAck(s, f, ack).at \in {"forward", "answer"}
         /\ AfterAck(s, f, ack).at = "forward" => s = "broker"
         /\ AfterAck(s, f, ack).frame = f /\ AfterAck(s, f, ack).ack = ack
         /\ AfterAck(s, f, ack).at = "answer" => AfterAck(s, f, ack).executor = None
<1>1. CASE s = "broker" /\ request[f].kind = "dispatch"
  <2>1. AfterAck(s, f, ack) =
          [at |-> "forward", frame |-> f, ack |-> ack, tries |-> 1, connected |-> FALSE]
    BY <1>1 DEF AfterAck
  <2>2. AfterAck(s, f, ack) \in [at : {"forward"}, frame : Frame, ack : Ack,
                                 tries : 1 .. MaxTries, connected : BOOLEAN]
    BY <2>1
  <2>3. AfterAck(s, f, ack) \in Stage
    BY <2>2 DEF Stage
  <2> QED
    BY <1>1, <2>1, <2>3 DEF Idle
<1>2. CASE ~(s = "broker" /\ request[f].kind = "dispatch")
  <2>1. AfterAck(s, f, ack) = [at |-> "answer", frame |-> f, ack |-> ack, executor |-> None]
    BY <1>2 DEF AfterAck
  <2> QED
    BY <2>1 DEF Stage, Idle
<1> QED
  BY <1>1, <1>2

\* Replay keeps the invariant.
LEMMA ReplayKeeps ==
  ASSUME IInv, NEW s \in Service, NEW f \in Frame, Replay(s, f)
  PROVE  IInv'
<1> USE DEF Replay
<1> DEFINE a == mem[s].state.lastAck
<1>1. Receives(s, f) /\ Running(s) /\ UNCHANGED <<request, file, mem, nextAck, accepted>>
  BY DEF Receives
<1>2. a \in Ack /\ a.frame = f /\ a # None
  BY <1>1, HeldFacts DEF CompletedReplay
<1>3. a \in OnRecord(s)
  BY <1>1, <1>2, HeldFacts, FileFacts DEF IInv, Held
<1> HIDE DEF a
<1>4. stage' = [Connected(s) EXCEPT ![s] = AfterAck(s, f, a)]
  BY DEF a
<1>5. stage' \in [Service -> Stage] /\ stage'[s] = AfterAck(s, f, a)
        /\ \A t \in Service \ {s} : stage'[t] = Connected(s)[t]
  BY <1>1, <1>2, <1>4, ConnectedFacts, AfterAckFacts
<1>6. ServiceInv(s)'
  <2>1. ServiceInv(s)
    BY Parts
  <2> QED
    BY <1>1, <1>2, <1>3, <1>5, <2>1, AfterAckFacts, NothingWritten
       DEF ServiceInv, Held, Running, LastRecord
<1>7. \A t \in Service \ {s} : ServiceInv(t)'
  BY <1>1, <1>5, OtherService, NothingWritten
<1> QED
  BY <1>1, <1>5, <1>6, <1>7, QuietStep DEF IInv, TypeOK

\* RecoverPending keeps the invariant.
LEMMA RecoverPendingKeeps ==
  ASSUME IInv, NEW s \in Service, NEW f \in Frame, RecoverPending(s, f)
  PROVE  IInv'
<1> USE DEF RecoverPending
<1>1. Receives(s, f) /\ Running(s) /\ UNCHANGED <<request, file, mem, nextAck, accepted>>
  BY DEF Receives
<1> DEFINE b == [at |-> "admitted", frame |-> f]
<1>2. b \in Stage /\ b # Idle /\ b.at = "admitted" /\ b.frame = f
  BY DEF Stage, Idle
<1>3. stage' = [Connected(s) EXCEPT ![s] = b]
  OBVIOUS
<1> HIDE DEF b
<1>4. stage' \in [Service -> Stage] /\ stage'[s] = b
        /\ \A t \in Service \ {s} : stage'[t] = Connected(s)[t]
  BY <1>1, <1>2, <1>3, ConnectedFacts
<1>5. ServiceInv(s)'
  <2>1. ServiceInv(s)
    BY Parts
  <2> QED
    BY <1>1, <1>2, <1>4, <2>1, NothingWritten DEF ServiceInv, Held, Running, LastRecord
<1>6. \A t \in Service \ {s} : ServiceInv(t)'
  BY <1>1, <1>4, OtherService, NothingWritten
<1> QED
  BY <1>1, <1>4, <1>5, <1>6, QuietStep DEF IInv, TypeOK

\* A quarantine leaves the journal's acknowledgements alone and the service down.
LEMMA QuarantineFacts ==
  ASSUME IInv, NEW s \in Service, Running(s), NEW o \in Outcome, Quarantine(s, o),
         UNCHANGED <<request, nextAck>>
  PROVE  /\ JournalInv' /\ \A t \in Service : OnRecord(t)' = OnRecord(t)
         /\ file' \in [Service -> File] /\ mem' \in [Service -> Ledger \cup {Down}]
         /\ mem'[s] = Down
         /\ \A t \in Service \ {s} : file'[t] = file[t] /\ mem'[t] = mem[t]
<1> DEFINE st == [mem[s].state EXCEPT !.quarantined = TRUE]
<1>1. Held(s) /\ mem[s].state \in LedgerState
  BY HeldFacts
<1>2. st \in LedgerState /\ st.next = mem[s].state.next /\ st.lastAck = mem[s].state.lastAck
        /\ st.pending = mem[s].state.pending
  BY <1>1 DEF LedgerState
<1>3. Appends(s, st, o)
  BY <1>1 DEF Quarantine, Appends
<1> HIDE DEF st
<1>4. JournalInv' /\ \A t \in Service : OnRecord(t)' = OnRecord(t)
  BY <1>2, <1>3, QuietWrite
<1>5. file' \in [Service -> File] /\ \A t \in Service \ {s} : file'[t] = file[t]
  BY <1>2, <1>3, Written
<1>6. mem' \in [Service -> Ledger \cup {Down}] /\ mem'[s] = Down
        /\ \A t \in Service \ {s} : mem'[t] = mem[t]
  BY DEF IInv, TypeOK, Quarantine
<1> QED
  BY <1>4, <1>5, <1>6

\* Reject keeps the invariant.
LEMMA RejectKeeps ==
  ASSUME IInv, NEW s \in Service, NEW f \in Frame, Reject(s, f)
  PROVE  IInv' /\ \A t \in Service : OnRecord(t)' = OnRecord(t)
<1> USE DEF Reject
<1>1. Receives(s, f) /\ Running(s) /\ UNCHANGED <<request, nextAck, accepted>>
        /\ stage' = Connected(s)
  BY DEF Receives
<1>2. PICK o \in Outcome : Quarantine(s, o)
  OBVIOUS
<1>3. /\ JournalInv' /\ \A t \in Service : OnRecord(t)' = OnRecord(t)
      /\ file' \in [Service -> File] /\ mem' \in [Service -> Ledger \cup {Down}]
      /\ mem'[s] = Down
      /\ \A t \in Service \ {s} : file'[t] = file[t] /\ mem'[t] = mem[t]
  BY <1>1, <1>2, QuarantineFacts
<1>4. stage' \in [Service -> Stage] /\ stage'[s] = Idle
  BY <1>1, ConnectedFacts
<1>5. TypeOK'
  BY <1>1, <1>3, <1>4 DEF IInv, TypeOK
<1>6. ServiceInv(s)'
  BY <1>3, <1>4, WentDown
<1>7. \A t \in Service \ {s} : ServiceInv(t)'
  BY <1>1, <1>3, OtherService
<1> QED
  BY <1>3, <1>5, <1>6, <1>7, PartsNext

\* RejectForward keeps the invariant.
LEMMA RejectForwardKeeps ==
  ASSUME IInv, NEW s \in Service, RejectForward(s)
  PROVE  IInv' /\ \A t \in Service : OnRecord(t)' = OnRecord(t)
<1> USE DEF RejectForward
<1>1. /\ stage[s] # Idle /\ UNCHANGED <<request, nextAck, accepted>>
      /\ stage' = [stage EXCEPT ![s] = Idle]
  BY DEF Idle, Stopped
<1>2. PICK o \in Outcome : Quarantine(s, o)
  OBVIOUS
<1>3. Running(s)
  BY <1>1, HeldFacts
<1>4. /\ JournalInv' /\ \A t \in Service : OnRecord(t)' = OnRecord(t)
      /\ file' \in [Service -> File] /\ mem' \in [Service -> Ledger \cup {Down}]
      /\ mem'[s] = Down
      /\ \A t \in Service \ {s} : file'[t] = file[t] /\ mem'[t] = mem[t]
  BY <1>1, <1>2, <1>3, QuarantineFacts
<1>5. /\ stage' \in [Service -> Stage] /\ stage'[s] = Idle
      /\ \A t \in Service \ {s} : stage'[t] = stage[t]
  BY <1>1 DEF IInv, TypeOK, Stage
<1>6. TypeOK'
  BY <1>1, <1>4, <1>5 DEF IInv, TypeOK
<1>7. ServiceInv(s)'
  BY <1>4, <1>5, WentDown
<1>8. \A t \in Service \ {s} : ServiceInv(t)'
  BY <1>4, <1>5, Undisturbed, Parts
<1> QED
  BY <1>4, <1>6, <1>7, <1>8, PartsNext

\* After persisting, the memory is the journal or the service is down.
LEMMA PersistFacts ==
  ASSUME IInv, NEW s \in Service, Running(s), NEW st \in LedgerState, ~st.quarantined,
         NEW o \in Outcome, Persist(s, st, o)
  PROVE  /\ Appends(s, st, o)
         /\ file' \in [Service -> File] /\ mem' \in [Service -> Ledger \cup {Down}]
         /\ \A t \in Service \ {s} : file'[t] = file[t] /\ mem'[t] = mem[t]
         /\ o # "ok" => mem'[s] = Down
         /\ o = "ok" => Running(s)' /\ Held(s)' /\ mem'[s].state = st
<1>1. Appends(s, st, o)
  BY HeldFacts DEF Persist, Appends
<1>2. file' \in [Service -> File] /\ \A t \in Service \ {s} : file'[t] = file[t]
  BY <1>1, Written
<1> DEFINE l == [state |-> st, digest |-> Len(file[s].records) + 1]
<1>3. mem' = [mem EXCEPT ![s] = IF o = "ok" THEN l ELSE Down]
  BY DEF Persist
<1>4. mem'[s] = (IF o = "ok" THEN l ELSE Down) /\ \A t \in Service \ {s} : mem'[t] = mem[t]
  BY <1>3 DEF IInv, TypeOK
<1>5. CASE o # "ok"
  <2>1. mem' \in [Service -> Ledger \cup {Down}]
    BY <1>3, <1>5 DEF IInv, TypeOK
  <2> QED
    BY <1>1, <1>2, <1>4, <1>5, <2>1
<1>6. CASE o = "ok"
  <2>1. /\ Len(file[s].records) + 1 \in 0 .. MaxRecords
        /\ ~file'[s].torn /\ file'[s].exists /\ file'[s].records # <<>>
        /\ Len(file'[s].records) = Len(file[s].records) + 1
    BY <1>1, <1>6, Written
  <2>2. LastRecord(s)'.state = st
    BY <1>1, <1>6, WrittenRecord
  <2>3. l \in Ledger
    BY <2>1 DEF Ledger
  <2>4. mem' \in [Service -> Ledger \cup {Down}]
    BY <1>3, <2>3 DEF IInv, TypeOK
  <2>5. mem'[s] = l /\ mem'[s] # Down /\ mem'[s].state = st
    BY <1>4, <1>6, <2>3
  <2>6. Held(s)'
    BY <2>1, <2>2, <2>5 DEF Held
  <2> QED
    BY <1>1, <1>2, <1>4, <1>6, <2>4, <2>5, <2>6 DEF Running
<1> QED
  BY <1>5, <1>6

\* AdmitNew keeps the invariant.
LEMMA AdmitNewKeeps ==
  ASSUME IInv, NEW s \in Service, NEW f \in Frame, AdmitNew(s, f)
  PROVE  IInv' /\ \A t \in Service : OnRecord(t)' = OnRecord(t)
<1> DEFINE st == [mem[s].state EXCEPT !.pending = f]
           b == [at |-> "admitted", frame |-> f]
<1>1. /\ Receives(s, f) /\ Running(s) /\ request[f] # None
      /\ UNCHANGED <<request, nextAck, accepted>>
      /\ SeqOf(s, f) = mem[s].state.next
  BY DEF AdmitNew, Receives, Refuses
<1>2. PICK o \in Outcome :
        /\ Persist(s, st, o)
        /\ stage' = IF o = "ok" THEN [Connected(s) EXCEPT ![s] = b] ELSE Connected(s)
  BY DEF AdmitNew
<1>3. /\ st \in LedgerState /\ st.next = mem[s].state.next /\ st.lastAck = mem[s].state.lastAck
      /\ st.pending = f /\ ~st.quarantined
  BY <1>1, HeldFacts DEF LedgerState
<1>4. b \in Stage /\ b # Idle /\ b.at = "admitted" /\ b.frame = f
  BY DEF Stage, Idle
<1> HIDE DEF st, b
<1>5. /\ Appends(s, st, o)
      /\ file' \in [Service -> File] /\ mem' \in [Service -> Ledger \cup {Down}]
      /\ \A t \in Service \ {s} : file'[t] = file[t] /\ mem'[t] = mem[t]
      /\ o # "ok" => mem'[s] = Down
      /\ o = "ok" => Running(s)' /\ Held(s)' /\ mem'[s].state = st
  BY <1>1, <1>2, <1>3, PersistFacts
<1>6. s = "executor" => \E a \in OnRecord("broker") : a.frame = f
  BY <1>1, ConnectedFacts
<1>7. JournalInv' /\ \A t \in Service : OnRecord(t)' = OnRecord(t)
  BY <1>1, <1>3, <1>5, <1>6, QuietWrite
<1>8. /\ stage' \in [Service -> Stage] /\ stage'[s] = IF o = "ok" THEN b ELSE Idle
      /\ \A t \in Service \ {s} : stage'[t] = Connected(s)[t]
  BY <1>1, <1>2, <1>4, ConnectedFacts
<1>9. TypeOK'
  BY <1>1, <1>5, <1>8 DEF IInv, TypeOK
<1>10. ServiceInv(s)'
  <2>1. CASE o = "ok"
    BY <1>3, <1>4, <1>5, <1>8, <2>1 DEF ServiceInv
  <2>2. CASE o # "ok"
    BY <1>5, <1>8, <2>2, WentDown
  <2> QED
    BY <2>1, <2>2
<1>11. \A t \in Service \ {s} : ServiceInv(t)'
  BY <1>1, <1>5, <1>7, <1>8, OtherService
<1> QED
  BY <1>7, <1>9, <1>10, <1>11, PartsNext

\* Completing moves to the next number and remembers the acknowledgement.
LEMMA CompletedFacts ==
  ASSUME NEW st \in LedgerState, NEW ack \in Ack, st.next \in 1 .. MaxSeq
  PROVE  /\ Completed(st, ack) \in LedgerState
         /\ Completed(st, ack).next = st.next + 1
         /\ Completed(st, ack).pending = None
         /\ Completed(st, ack).lastAck = ack
         /\ Completed(st, ack).quarantined = st.quarantined
<1> DEFINE s1 == [st EXCEPT !.next = @ + 1]
           s2 == [s1 EXCEPT !.pending = None]
           s3 == [s2 EXCEPT !.lastAck = ack]
<1>1. /\ s1 \in LedgerState /\ s1.next = st.next + 1 /\ s1.quarantined = st.quarantined
  BY DEF LedgerState
<1> HIDE DEF s1
<1>2. /\ s2 \in LedgerState /\ s2.next = st.next + 1 /\ s2.quarantined = st.quarantined
      /\ s2.pending = None
  BY <1>1 DEF LedgerState
<1> HIDE DEF s2
<1>3. /\ s3 \in LedgerState /\ s3.next = st.next + 1 /\ s3.quarantined = st.quarantined
      /\ s3.pending = None /\ s3.lastAck = ack
  BY <1>2 DEF LedgerState
<1>4. Completed(st, ack) = s3
  BY DEF Completed, s1, s2
<1> HIDE DEF s3
<1> QED
  BY <1>3, <1>4

\* The frame that Complete acknowledges is the one the journal has admitted,
\* and carries the next number.
LEMMA CompleteFacts ==
  ASSUME IInv, NEW s \in Service, stage[s].at = "admitted", nextAck <= MaxAcks,
         NEW f, f = stage[s].frame,
         NEW ack, ack = [frame |-> f, seq |-> SeqOf(s, f), id |-> nextAck]
  PROVE  /\ Running(s) /\ f \in Frame /\ request[f] # None
         /\ ack \in Ack /\ ack.frame = f /\ ack.seq = SeqOf(s, f) /\ ack.id = nextAck
         /\ ack.seq = LastRecord(s).state.next /\ ack.seq \in Nat /\ ack # None
         /\ Completed(mem[s].state, ack) \in LedgerState
         /\ Completed(mem[s].state, ack).next = ack.seq + 1
         /\ Completed(mem[s].state, ack).pending = None
         /\ Completed(mem[s].state, ack).lastAck = ack
         /\ ~Completed(mem[s].state, ack).quarantined
         /\ s = "executor" => \E b \in OnRecord("broker") : b.frame = f
<1>1. f \in Frame /\ stage[s] # Idle
  BY StageFacts DEF IInv, Idle
<1>2. mem[s].state.pending = f
  BY DEF IInv, StageIsRecorded
<1>3. /\ Running(s) /\ mem[s].state \in LedgerState /\ mem[s].state = LastRecord(s).state
      /\ mem[s].state.quarantined = FALSE /\ file[s].records # <<>>
  BY <1>1, HeldFacts DEF Held
<1>4. /\ request[f] # None /\ SeqOf(s, f) = LastRecord(s).state.next
      /\ s = "executor" => \E b \in OnRecord("broker") : b.frame = f
  BY <1>1, <1>2, <1>3 DEF IInv, PendingIsNext
<1>5. request[f] \in Request
  BY <1>1, <1>4 DEF IInv, TypeOK
<1>6. SeqOf(s, f) \in 1 .. MaxSeq
  BY <1>5 DEF SeqOf, Request
<1>7. nextAck \in AckId
  BY DEF IInv, TypeOK, AckId
<1>8. ack \in Ack /\ ack.frame = f /\ ack.seq = SeqOf(s, f) /\ ack.id = nextAck
  BY <1>1, <1>6, <1>7 DEF Ack
<1>9. /\ Completed(mem[s].state, ack) \in LedgerState
      /\ Completed(mem[s].state, ack).next = ack.seq + 1
      /\ Completed(mem[s].state, ack).pending = None
      /\ Completed(mem[s].state, ack).lastAck = ack
      /\ ~Completed(mem[s].state, ack).quarantined
  BY <1>3, <1>4, <1>6, <1>8, CompletedFacts
<1> QED
  BY <1>1, <1>3, <1>4, <1>6, <1>8, <1>9

\* Complete keeps the invariant.
LEMMA CompleteKeeps ==
  ASSUME IInv, NEW s \in Service, Complete(s)
  PROVE  IInv'
<1> DEFINE f == stage[s].frame
           ack == [frame |-> f, seq |-> SeqOf(s, f), id |-> nextAck]
           st == Completed(mem[s].state, ack)
<1>1. /\ stage[s].at = "admitted" /\ nextAck <= MaxAcks /\ nextAck' = nextAck + 1
      /\ UNCHANGED <<request, accepted>>
  BY DEF Complete
<1>2. PICK o \in Outcome :
        /\ Persist(s, st, o)
        /\ stage' = IF o = "ok" THEN [stage EXCEPT ![s] = AfterAck(s, f, ack)]
                                ELSE [stage EXCEPT ![s] = Idle]
  BY DEF Complete, Stopped
<1>3. /\ Running(s) /\ f \in Frame /\ request[f] # None
      /\ ack \in Ack /\ ack.frame = f /\ ack.seq = SeqOf(s, f) /\ ack.id = nextAck
      /\ ack.seq = LastRecord(s).state.next /\ ack.seq \in Nat /\ ack # None
      /\ st \in LedgerState /\ st.next = ack.seq + 1 /\ st.pending = None /\ st.lastAck = ack
      /\ ~st.quarantined
  BY <1>1, CompleteFacts
<1> HIDE DEF f, ack, st
<1>4. /\ Appends(s, st, o)
      /\ file' \in [Service -> File] /\ mem' \in [Service -> Ledger \cup {Down}]
      /\ \A t \in Service \ {s} : file'[t] = file[t] /\ mem'[t] = mem[t]
      /\ o # "ok" => mem'[s] = Down
      /\ o = "ok" => Running(s)' /\ Held(s)' /\ mem'[s].state = st
  BY <1>2, <1>3, PersistFacts
<1>5. Chained' /\ JournalSize'
  BY <1>3, <1>4, Written
<1>6. \A t \in Service \ {s} : OnRecord(t)' = OnRecord(t) /\ LastRecord(t)' = LastRecord(t)
  BY <1>3, <1>4, WrittenRecord
<1>7. o \notin {"ok", "kept"} => OnRecord(s)' = OnRecord(s) /\ LastRecord(s)' = LastRecord(s)
  BY <1>3, <1>4, WrittenRecord
<1>8. o \in {"ok", "kept"} => OnRecord(s)' = OnRecord(s) \cup {ack} /\ LastRecord(s)'.state = st
  <2>1. None \notin OnRecord(s)
    BY DEF OnRecord
  <2> QED
    BY <2>1, <1>3, <1>4, WrittenRecord
<1>9. \A t \in Service : OnRecord(t) \subseteq OnRecord(t)'
  BY <1>6, <1>7, <1>8
<1>10. nextAck \in Nat
  BY DEF IInv, TypeOK
<1>11. RecordedAcks'
  <2> SUFFICES ASSUME NEW t \in Service, NEW a \in OnRecord(t)'
               PROVE  /\ a \in Ack /\ request[a.frame] # None /\ a.seq = SeqOf(t, a.frame)
                      /\ a.id < nextAck + 1 /\ a.seq < LastRecord(t)'.state.next
    BY <1>1 DEF RecordedAcks, SeqOf
  <2>1. CASE a \in OnRecord(t)
    <3>1. /\ a \in Ack /\ request[a.frame] # None /\ a.seq = SeqOf(t, a.frame)
          /\ a.id < nextAck /\ a.seq < LastRecord(t).state.next
      BY <2>1 DEF IInv, RecordedAcks
    <3>2. a.id \in Nat /\ a.seq \in Nat
      BY <3>1 DEF Ack, AckId
    <3>3. CASE LastRecord(t)' = LastRecord(t)
      BY <1>10, <3>1, <3>2, <3>3
    <3>4. CASE t = s /\ LastRecord(t)'.state = st
      BY <1>3, <1>10, <3>1, <3>2, <3>4
    <3> QED
      BY <1>6, <1>7, <1>8, <3>3, <3>4
  <2>2. CASE a \notin OnRecord(t)
    <3>1. t = s /\ a = ack /\ LastRecord(t)'.state = st
      BY <1>6, <1>7, <1>8, <2>2
    <3>2. ack.id < nextAck + 1 /\ ack.seq < st.next
      BY <1>3, <1>10
    <3> QED
      BY <1>3, <3>1, <3>2
  <2> QED
    BY <2>1, <2>2
<1>12. Contiguous'
  <2>1. \A t \in Service \ {s} : OnRecord(t)' # {} =>
          \E a \in OnRecord(t)' : LastRecord(t)'.state.next = a.seq + 1
    BY <1>6 DEF IInv, Contiguous
  <2>2. OnRecord(s)' # {} => \E a \in OnRecord(s)' : LastRecord(s)'.state.next = a.seq + 1
    <3>1. CASE o \in {"ok", "kept"}
      BY <1>3, <1>8, <3>1
    <3>2. CASE o \notin {"ok", "kept"}
      BY <1>7, <3>2 DEF IInv, Contiguous
    <3> QED
      BY <3>1, <3>2
  <2> QED
    BY <2>1, <2>2 DEF Contiguous
<1>13. PendingIsNext'
  <2> SUFFICES ASSUME NEW t \in Service, file'[t].records # <<>>,
                      NEW g, g = LastRecord(t)'.state.pending, g # None
               PROVE  /\ request[g] # None
                      /\ SeqOf(t, g) = LastRecord(t)'.state.next
                      /\ t = "executor" => \E b \in OnRecord("broker")' : b.frame = g
    BY <1>1 DEF PendingIsNext, SeqOf
  <2>1. LastRecord(t)' = LastRecord(t) /\ file[t].records # <<>>
    <3>1. CASE t # s
      BY <1>4, <1>6, <3>1
    <3>2. CASE t = s
      <4>1. o \notin {"ok", "kept"}
        BY <1>3, <1>8, <3>2
      <4>2. file[s].records # <<>>
        BY <1>4 DEF Appends, Held
      <4> QED
        BY <1>7, <3>2, <4>1, <4>2
    <3> QED
      BY <3>1, <3>2
  <2> QED
    BY <2>1, <1>9 DEF IInv, PendingIsNext, Service
<1>14. /\ stage' \in [Service -> Stage]
       /\ stage'[s] = IF o = "ok" THEN AfterAck(s, f, ack) ELSE Idle
       /\ \A t \in Service \ {s} : stage'[t] = stage[t]
  <2>1. AfterAck(s, f, ack) \in Stage
    BY <1>3, AfterAckFacts
  <2> QED
    BY <1>2, <2>1 DEF IInv, TypeOK, Stage
<1>15. TypeOK'
  BY <1>1, <1>4, <1>14 DEF IInv, TypeOK
<1>16. ServiceInv(s)'
  <2>1. CASE o = "ok"
    <3>1. ack \in OnRecord(s)'
      BY <1>8, <2>1
    <3> QED
      BY <1>3, <1>4, <1>14, <2>1, <3>1, AfterAckFacts DEF ServiceInv
  <2>2. CASE o # "ok"
    BY <1>4, <1>14, <2>2, WentDown
  <2> QED
    BY <2>1, <2>2
<1>17. \A t \in Service \ {s} : ServiceInv(t)'
  BY <1>4, <1>9, <1>14, Parts, Undisturbed
<1> QED
  BY <1>5, <1>11, <1>12, <1>13, <1>15, <1>16, <1>17, PartsNext DEF JournalInv

\* Every step keeps the invariant.
LEMMA NextKeeps == IInv /\ [Next]_vars => IInv'
<1> SUFFICES ASSUME IInv, [Next]_vars PROVE IInv'
  OBVIOUS
<1>1. ASSUME NEW f \in Frame, NEW r \in Request, Sign(f, r) PROVE IInv'
  BY <1>1, SignKeeps
<1>2. ASSUME NEW s \in Service, CreateLedger(s) PROVE IInv'
  BY <1>2, CreateLedgerKeeps
<1>3. ASSUME NEW s \in Service, Reopen(s) PROVE IInv'
  BY <1>3, ReopenKeeps
<1>4. ASSUME NEW s \in Service, NEW f \in Frame, Replay(s, f) PROVE IInv'
  BY <1>4, ReplayKeeps
<1>5. ASSUME NEW s \in Service, NEW f \in Frame, Reject(s, f) PROVE IInv'
  BY <1>5, RejectKeeps
<1>6. ASSUME NEW s \in Service, NEW f \in Frame, AdmitNew(s, f) PROVE IInv'
  BY <1>6, AdmitNewKeeps
<1>7. ASSUME NEW s \in Service, NEW f \in Frame, RecoverPending(s, f) PROVE IInv'
  BY <1>7, RecoverPendingKeeps
<1>8. ASSUME NEW s \in Service, RejectForward(s) PROVE IInv'
  BY <1>8, RejectForwardKeeps
<1>9. ASSUME NEW s \in Service, Complete(s) PROVE IInv'
  BY <1>9, CompleteKeeps
<1>10. ASSUME NEW s \in Service, Crash(s) PROVE IInv'
  BY <1>10, CrashKeeps
<1>11. CASE AttemptFails \/ AnswerBroker \/ AnswerMaster \/ AnswerLost
  BY <1>11, AttemptFailsKeeps, AnswerBrokerKeeps, AnswerMasterKeeps, AnswerLostKeeps
<1>12. CASE UNCHANGED vars
  <2>1. \A t \in Service : ServiceInv(t)'
    BY <1>12, NothingWritten, Parts, Undisturbed DEF vars
  <2> QED
    BY <1>12, <2>1, QuietStep DEF vars, IInv, TypeOK
<1> QED
  BY <1>1, <1>2, <1>3, <1>4, <1>5, <1>6, <1>7, <1>8, <1>9, <1>10, <1>11, <1>12 DEF Next, Serve

\* The inductive invariant holds of every reachable state.
LEMMA Invariant == Spec => []IInv
  BY InitHolds, NextKeeps, PTL DEF Spec

-----------------------------------------------------------------------------
(* The theorems *)

\* Journals, ledgers, stages and acknowledgements stay inside their types, and so
\* do the bounds of complete and persist: the next sequence number never passes
\* the largest one a signed frame may carry by more than one.
THEOREM TypeCorrect == Spec => []TypeOK
<1>1. IInv => TypeOK
  BY DEF IInv
<1> QED
  BY <1>1, Invariant, PTL

\* Whatever writes fail, in whatever order services die and restart, a journal
\* with records and a whole last line is a chain that load_records accepts.
THEOREM JournalsReload == Spec => []JournalReloads
<1>1. IInv => JournalReloads
  BY DEF IInv, Chained, JournalReloads, Loads
<1> QED
  BY <1>1, Invariant, PTL

\* A running service holds in memory exactly what a restart would reload: admit,
\* complete and quarantine change the state before persist writes it, and no
\* failed write leaves the two apart.
THEOREM MemoryDurable == Spec => []MemoryIsDurable
<1>1. IInv => MemoryIsDurable
  <2> SUFFICES ASSUME IInv, NEW s \in Service, Running(s)
               PROVE  Loads(s) /\ mem[s].state = LastRecord(s).state
    BY DEF MemoryIsDurable
  <2>1. Held(s)
    BY DEF IInv, RunningIsHeld
  <2>2. mem[s].state = LastRecord(s).state
    BY <2>1 DEF Held
  <2> QED
    BY <2>1, <2>2 DEF Held, Loads, IInv, Chained
<1> QED
  BY <1>1, Invariant, PTL

\* Once a quarantine record is the end of a journal, that journal is never written
\* again and its service never runs again: open refuses it, and nothing else
\* brings a service up.
THEOREM QuarantineFinal == Spec => QuarantineIsFinal
<1> DEFINE Closed(s) == file[s].records # <<>> /\ LastRecord(s).state.quarantined
<1>1. ASSUME IInv, [Next]_vars, NEW s \in Service, Closed(s)
      PROVE  file'[s] = file[s] /\ mem'[s] = Down
  <2>1. ~Running(s) /\ stage[s] = Idle /\ stage[s].at = "idle" /\ mem[s] = Down
    <3>1. ~Running(s)
      BY <1>1, HeldFacts
    <3> QED
      BY <1>1, <3>1 DEF IInv, WorkingIsRunning, Running, Idle
  <2>2. file[s].exists
    BY <1>1 DEF IInv, JournalSize
  <2> USE DEF IInv, TypeOK
  <2>3. ASSUME NEW f \in Frame, NEW r \in Request, Sign(f, r) PROVE file'[s] = file[s] /\ mem'[s] = Down
    BY <2>1, <2>3 DEF Sign
  <2>4. ASSUME NEW t \in Service, CreateLedger(t) PROVE file'[s] = file[s] /\ mem'[s] = Down
    BY <1>1, <2>1, <2>2, <2>4 DEF CreateLedger
  <2>5. ASSUME NEW t \in Service, Reopen(t) PROVE file'[s] = file[s] /\ mem'[s] = Down
    BY <1>1, <2>1, <2>5 DEF Reopen
  <2>6. ASSUME NEW t \in Service, NEW f \in Frame, Receives(t, f) PROVE t # s
    BY <2>1, <2>6 DEF Receives
  <2>7. ASSUME NEW t \in Service, NEW f \in Frame, Replay(t, f) \/ RecoverPending(t, f)
        PROVE  file'[s] = file[s] /\ mem'[s] = Down
    BY <2>1, <2>7 DEF Replay, RecoverPending
  <2>8. ASSUME NEW t \in Service, NEW f \in Frame, Reject(t, f) \/ AdmitNew(t, f)
        PROVE  file'[s] = file[s] /\ mem'[s] = Down
    BY <1>1, <2>1, <2>6, <2>8 DEF Reject, AdmitNew, Quarantine, Persist
  <2>9. ASSUME NEW t \in Service, RejectForward(t) \/ Complete(t)
        PROVE  file'[s] = file[s] /\ mem'[s] = Down
    <3>1. t # s
      BY <2>1, <2>9 DEF RejectForward, Complete
    <3> QED
      BY <1>1, <2>1, <2>9, <3>1 DEF RejectForward, Complete, Quarantine, Persist
  <2>10. ASSUME NEW t \in Service, Crash(t) PROVE file'[s] = file[s] /\ mem'[s] = Down
    BY <1>1, <2>1, <2>10 DEF Crash
  <2>11. CASE AttemptFails
    BY <1>1, <2>1, <2>11 DEF AttemptFails
  <2>12. CASE AnswerBroker
    BY <1>1, <2>1, <2>12 DEF AnswerBroker
  <2>13. CASE AnswerMaster \/ AnswerLost
    BY <1>1, <2>1, <2>13 DEF AnswerMaster, AnswerLost
  <2>14. CASE UNCHANGED vars
    BY <2>1, <2>14 DEF vars
  <2> QED
    BY <1>1, <2>3, <2>4, <2>5, <2>7, <2>8, <2>9, <2>10, <2>11, <2>12, <2>13, <2>14 DEF Next, Serve
<1>2. IInv /\ [Next]_vars =>
        [\A s \in Service : file[s].records # <<>> /\ LastRecord(s).state.quarantined
           => file'[s] = file[s] /\ mem'[s] = Down]_vars
  BY <1>1
<1> QED
  BY <1>2, Invariant, PTL DEF Spec, QuarantineIsFinal

-----------------------------------------------------------------------------
(* The refinement *)

\* The log depends on what is on record and on what the master accepted.
LEMMA LogUnchanged ==
  ASSUME \A t \in Service : OnRecord(t)' = OnRecord(t), accepted' = accepted
  PROVE  UNCHANGED <<Issued, accepted>>
  BY DEF Issued

\* A completion that reaches the journal issues a new acknowledgement: the frame
\* is not on record yet because its number is above all that are, and its id was
\* never handed out.
LEMMA CompleteIssues ==
  ASSUME IInv, NEW s \in Service, Complete(s)
  PROVE  [Log!Next]_<<Issued, accepted>>
<1> DEFINE f == stage[s].frame
           ack == [frame |-> f, seq |-> SeqOf(s, f), id |-> nextAck]
           st == Completed(mem[s].state, ack)
<1>1. stage[s].at = "admitted" /\ nextAck <= MaxAcks /\ UNCHANGED <<request, accepted>>
  BY DEF Complete
<1>2. PICK o \in Outcome : Persist(s, st, o)
  BY DEF Complete
<1>3. /\ Running(s) /\ f \in Frame /\ request[f] # None
      /\ ack \in Ack /\ ack.frame = f /\ ack.seq = SeqOf(s, f) /\ ack.id = nextAck
      /\ ack.seq = LastRecord(s).state.next /\ ack.seq \in Nat /\ ack # None
      /\ st \in LedgerState /\ st.lastAck = ack /\ ~st.quarantined
      /\ s = "executor" => \E b \in OnRecord("broker") : b.frame = f
  BY <1>1, CompleteFacts
<1> HIDE DEF f, ack, st
<1>4. Appends(s, st, o)
  BY <1>2, <1>3, PersistFacts
<1>5. \A t \in Service \ {s} : OnRecord(t)' = OnRecord(t)
  BY <1>3, <1>4, WrittenRecord
<1>6. CASE o \notin {"ok", "kept"}
  <2>1. OnRecord(s)' = OnRecord(s)
    BY <1>3, <1>4, <1>6, WrittenRecord
  <2> QED
    BY <1>1, <1>5, <2>1, LogUnchanged
<1>7. CASE o \in {"ok", "kept"}
  <2>1. OnRecord(s)' = OnRecord(s) \cup {ack}
    <3>1. None \notin OnRecord(s)
      BY DEF OnRecord
    <3> QED
      BY <3>1, <1>3, <1>4, <1>7, WrittenRecord
  <2>2. \A t \in Service : \A b \in OnRecord(t) : b \in Ack /\ b.id < nextAck
    BY DEF IInv, RecordedAcks
  <2>3. \A t \in Service : \A b \in OnRecord(t) : b.id # ack.id
    <3> SUFFICES ASSUME NEW t \in Service, NEW b \in OnRecord(t) PROVE b.id # ack.id
      OBVIOUS
    <3>1. b.id \in Nat /\ b.id < nextAck /\ nextAck \in Nat
      BY <2>2 DEF Ack, AckId, IInv, TypeOK
    <3> QED
      BY <3>1, <1>3
  <2>4. \A b \in OnRecord(s) : b.seq < ack.seq /\ b.seq = SeqOf(s, b.frame) /\ b.seq \in Nat
    BY <1>3, <2>2 DEF IInv, RecordedAcks, Ack
  <2>5. \A b \in OnRecord(s) : b.frame # ack.frame
    <3> SUFFICES ASSUME NEW b \in OnRecord(s), b.frame = ack.frame PROVE FALSE
      OBVIOUS
    <3>1. b.seq = ack.seq
      BY <1>3, <2>4
    <3> QED
      BY <1>3, <2>4, <3>1
  <2>6. OnRecord(s) = {} \/ \E b \in OnRecord(s) : ack.seq = b.seq + 1
    BY <1>3 DEF IInv, Contiguous
  <2>7. /\ Issued' = [Issued EXCEPT ![s] = @ \cup {ack}]
        /\ \A t \in Service : Issued[t] = OnRecord(t)
    BY <1>5, <2>1 DEF Issued
  <2>8. Log!Issue(s, ack)
    BY <1>1, <1>3, <2>1, <2>3, <2>4, <2>5, <2>6, <2>7 DEF Log!Issue, Log!Services, Service
  <2> QED
    BY <1>3, <2>8 DEF Log!Next, Log!Services, Log!Ack, Service, Ack
<1> QED
  BY <1>6, <1>7

\* An answer the master takes is an acceptance or a repetition in the log.
LEMMA AnswerAccepts ==
  ASSUME IInv, AnswerMaster
  PROVE  [Log!Next]_<<Issued, accepted>>
<1> DEFINE a == stage["broker"].ack
           e == stage["broker"].executor
<1>1. /\ stage["broker"].at = "answer" /\ "broker" \in Service /\ "executor" \in Service
      /\ accepted' = accepted \cup {[broker |-> a, executor |-> e]}
      /\ UNCHANGED <<request, file, nextAck>>
  BY DEF AnswerMaster, Service
<1>2. a \in Ack /\ e \in Ack \cup {None}
  <2>1. stage["broker"] \in [at : {"answer"}, frame : Frame, ack : Ack, executor : Ack \cup {None}]
    BY <1>1, StageFacts DEF IInv
  <2> QED
    BY <2>1
<1>3. a \in OnRecord("broker") /\ (e # None => e \in OnRecord("executor") /\ e.frame = a.frame)
  BY <1>1 DEF IInv, StageIsRecorded, AnswerMaster, VerifiedPair
<1>4. Issued' = Issued /\ \A t \in Service : Issued[t] = OnRecord(t)
  BY <1>1, NothingWritten DEF Issued
<1> HIDE DEF a, e
<1>5. Log!Accept(a, e)
  BY <1>1, <1>3, <1>4 DEF Log!Accept
<1> QED
  BY <1>2, <1>5 DEF Log!Next, Log!Ack, Ack

\* The journals and the Master implement the acknowledgement log: every record that
\* reaches a disk, also one whose sync failed or whose service died, issues at most
\* one acknowledgement per frame, in sequence and the Broker's first; the Master
\* accepts only what is on record.
THEOREM DispatchLogImplemented == Spec => ImplementsDispatchLog
<1>1. Init => Log!Init
  BY DEF Init, Log!Init, Log!Services, Service, OnRecord, Issued
<1>2. IInv /\ [Next]_vars => [Log!Next]_<<Issued, accepted>>
  <2> SUFFICES ASSUME IInv, [Next]_vars PROVE [Log!Next]_<<Issued, accepted>>
    OBVIOUS
  <2>1. ASSUME UNCHANGED <<request, file, nextAck>>, accepted' = accepted PROVE [Log!Next]_<<Issued, accepted>>
    BY <2>1, NothingWritten, LogUnchanged
  <2>2. ASSUME NEW f \in Frame, NEW r \in Request, Sign(f, r) PROVE [Log!Next]_<<Issued, accepted>>
    <3>1. \A t \in Service : OnRecord(t)' = OnRecord(t)
      BY <2>2 DEF Sign, OnRecord
    <3> QED
      BY <2>2, <3>1, LogUnchanged DEF Sign
  <2>3. ASSUME NEW s \in Service, CreateLedger(s) PROVE [Log!Next]_<<Issued, accepted>>
    BY <2>3, CreateLedgerKeeps, LogUnchanged DEF CreateLedger
  <2>4. ASSUME NEW s \in Service, NEW f \in Frame, Reject(s, f) PROVE [Log!Next]_<<Issued, accepted>>
    BY <2>4, RejectKeeps, LogUnchanged DEF Reject
  <2>5. ASSUME NEW s \in Service, NEW f \in Frame, AdmitNew(s, f) PROVE [Log!Next]_<<Issued, accepted>>
    BY <2>5, AdmitNewKeeps, LogUnchanged DEF AdmitNew
  <2>6. ASSUME NEW s \in Service, RejectForward(s) PROVE [Log!Next]_<<Issued, accepted>>
    BY <2>6, RejectForwardKeeps, LogUnchanged DEF RejectForward
  <2>7. ASSUME NEW s \in Service, Complete(s) PROVE [Log!Next]_<<Issued, accepted>>
    BY <2>7, CompleteIssues
  <2>8. ASSUME NEW s \in Service, Reopen(s) \/ Crash(s) PROVE [Log!Next]_<<Issued, accepted>>
    BY <2>1, <2>8 DEF Reopen, Crash
  <2>9. ASSUME NEW s \in Service, NEW f \in Frame, Replay(s, f) \/ RecoverPending(s, f)
        PROVE  [Log!Next]_<<Issued, accepted>>
    BY <2>1, <2>9 DEF Replay, RecoverPending
  <2>10. CASE AnswerMaster
    BY <2>10, AnswerAccepts
  <2>11. CASE AttemptFails \/ AnswerBroker \/ AnswerLost \/ UNCHANGED vars
    BY <2>1, <2>11 DEF AttemptFails, AnswerBroker, AnswerLost, vars
  <2> QED
    BY <2>2, <2>3, <2>4, <2>5, <2>6, <2>7, <2>8, <2>9, <2>10, <2>11 DEF Next, Serve
<1> QED
  BY <1>1, <1>2, Invariant, PTL DEF Spec, ImplementsDispatchLog, Log!Spec
=============================================================================
