----------------------------- MODULE ShmBroadcast -----------------------------
(***************************************************************************)
(* MessageQueue of shm_broadcast.py: a ring of shared-memory chunks that   *)
(* one writer fills and all local readers read, without locks. A message   *)
(* too large for a chunk overflows to a socket, and readers on other hosts *)
(* get everything from a socket.                                           *)
(*                                                                         *)
(* Every load and store of a flag is a step of its own; the memory fences  *)
(* of the code make them sequentially consistent. A message is its number, *)
(* and a chunk that is being written holds Torn. The handshake of          *)
(* wait_until_ready is over in the initial state.                          *)
(***************************************************************************)
EXTENDS Integers, Sequences, FiniteSets

CONSTANTS
  NumLocal,        \* n_local_reader; local readers are 1..NumLocal, their ranks plus 1
  Remote,          \* readers on other hosts
  MaxChunks,       \* max_chunks
  MaxMessages,     \* bound on the messages written
  Torn,
  Timed,           \* local readers that call dequeue with a timeout
  RecvTimeouts     \* whether a reader gives up waiting for an overflowed message

ASSUME BroadcastAssumption ==
  /\ NumLocal \in Nat \ {0}
  /\ Remote \cap 1..NumLocal = {}
  /\ MaxChunks \in Nat \ {0}
  /\ MaxMessages \in Nat
  /\ Torn \notin [msg : Nat, overflow : BOOLEAN]
  /\ Timed \subseteq 1..NumLocal
  /\ RecvTimeouts \in BOOLEAN

Local  == 1..NumLocal
Chunks == 0..MaxChunks - 1

VARIABLES
  written,        \* written[k]: the written flag of chunk k
  read,           \* read[k][r]: the read flag of reader r
  data,           \* data[k]: the content of chunk k
  wr,             \* the writer: pc, current_idx, overflow, and the next flag to reset
  rd,             \* the local readers: pc and current_idx
  shutting_down,  \* shutting_down[r]: the reader's queue is being shut down
  sockets,        \* sockets[r]: large messages under way to reader r
  log,            \* the messages written, by number
  delivered       \* delivered[r]: what dequeue has returned to reader r

shm  == <<written, read, data>>
vars == <<shm, wr, rd, shutting_down, sockets, log, delivered>>

Init ==
  /\ written = [k \in Chunks |-> FALSE]
  /\ read = [k \in Chunks |-> [r \in Local |-> FALSE]]
  /\ data = [k \in Chunks |-> Torn]
  /\ wr = [pc |-> "idle", idx |-> 0, overflow |-> FALSE, flag |-> 1]
  /\ rd = [r \in Local |-> [pc |-> "idle", idx |-> 0]]
  /\ shutting_down = [r \in Local |-> FALSE]
  /\ sockets = [r \in Local \cup Remote |-> <<>>]
  /\ log = <<>>
  /\ delivered = [r \in Local \cup Remote |-> <<>>]

NextIdx(idx) == (idx + 1) % MaxChunks

\* The message that the writer is about to write, has written, or is sending.
Message == Len(log) + 1

----------------------------------------------------------------------------
(* The writer: enqueue and acquire_write                                   *)

Enqueue(overflow) ==
  /\ wr.pc = "idle"
  /\ Len(log) < MaxMessages
  /\ wr' = [wr EXCEPT !.pc = "check", !.overflow = overflow]
  /\ UNCHANGED <<shm, rd, shutting_down, sockets, log, delivered>>

\* check(): the flags only rise until the writer resets them, so that it makes no
\* difference at what moments the writer loads them.
CanWrite == ~written[wr.idx] \/ Cardinality({r \in Local : read[wr.idx][r]}) = NumLocal

AcquireWrite ==
  /\ wr.pc = "check"
  /\ CanWrite
  /\ wr' = [wr EXCEPT !.pc = "write"]
  /\ written' = [written EXCEPT ![wr.idx] = FALSE]
  /\ data' = [data EXCEPT ![wr.idx] = Torn]
  /\ UNCHANGED <<read, rd, shutting_down, sockets, log, delivered>>

\* The chunk is not free: the writer looks again, or its deadline has passed and
\* it raises TimeoutError with nothing written.
RingFull ==
  /\ wr.pc = "check"
  /\ ~CanWrite
  /\ wr' = [wr EXCEPT !.pc = "full"]
  /\ UNCHANGED <<shm, rd, shutting_down, sockets, log, delivered>>

CheckAgain ==
  /\ wr.pc = "full"
  /\ \E pc \in {"check", "idle"} : wr' = [wr EXCEPT !.pc = pc]
  /\ UNCHANGED <<shm, rd, shutting_down, sockets, log, delivered>>

WriteEnd ==
  /\ wr.pc = "write"
  /\ data' = [data EXCEPT ![wr.idx] = [msg |-> Message, overflow |-> wr.overflow]]
  /\ wr' = [wr EXCEPT !.pc = "flags", !.flag = 1]
  /\ UNCHANGED <<written, read, rd, shutting_down, sockets, log, delivered>>

\* The read flags are reset one after the other.
ResetReadFlag ==
  /\ wr.pc = "flags"
  /\ read' = [read EXCEPT ![wr.idx][wr.flag] = FALSE]
  /\ wr' = IF wr.flag = NumLocal THEN [wr EXCEPT !.pc = "mark"]
           ELSE [wr EXCEPT !.flag = @ + 1]
  /\ UNCHANGED <<written, data, rd, shutting_down, sockets, log, delivered>>

\* The written flag is set: from here on the message can be read.
MarkWritten ==
  /\ wr.pc = "mark"
  /\ written' = [written EXCEPT ![wr.idx] = TRUE]
  /\ log' = Append(log, Message)
  /\ wr' = [wr EXCEPT !.idx = NextIdx(@), !.pc = IF wr.overflow THEN "send" ELSE "notify"]
  /\ UNCHANGED <<read, data, rd, shutting_down, sockets, delivered>>

SentTo(readers) ==
  sockets' = [r \in DOMAIN sockets |->
                IF r \in readers THEN Append(sockets[r], Len(log)) ELSE sockets[r]]

\* A message that did not fit follows on the local socket.
SendOverflow ==
  /\ wr.pc = "send"
  /\ SentTo(Local)
  /\ wr' = [wr EXCEPT !.pc = "notify"]
  /\ UNCHANGED <<shm, rd, shutting_down, log, delivered>>

\* Mutant: a reader that was woken does not look whether it is to stop.
NeverCancelled(r) == "check1"

\* Where the reader goes on after wait().
AfterWait(r) == IF shutting_down[r] THEN "cancelled" ELSE "check1"

\* notify() wakes some of the parked readers: a publisher drops what exceeds its
\* high-water mark of one message. A notification that finds the reader awake stays
\* in its socket and ends its next poll at once, as Wake does.
NotifyReaders ==
  /\ wr.pc = "notify"
  /\ \E reached \in SUBSET {r \in Local : rd[r].pc = "parked"} :
       rd' = [r \in Local |-> IF r \in reached THEN [rd[r] EXCEPT !.pc = AfterWait(r)] ELSE rd[r]]
  /\ wr' = [wr EXCEPT !.pc = IF Remote = {} THEN "idle" ELSE "remote"]
  /\ UNCHANGED <<shm, shutting_down, sockets, log, delivered>>

SendRemote ==
  /\ wr.pc = "remote"
  /\ SentTo(Remote)
  /\ wr' = [wr EXCEPT !.pc = "idle"]
  /\ UNCHANGED <<shm, rd, shutting_down, log, delivered>>

----------------------------------------------------------------------------
(* A local reader: dequeue, acquire_read and SpinCondition.wait            *)

Goes(r, pc) == rd' = [rd EXCEPT ![r].pc = pc]

Dequeue(r) ==
  /\ rd[r].pc = "idle"
  /\ Goes(r, "check1")
  /\ UNCHANGED <<shm, wr, shutting_down, sockets, log, delivered>>

\* Mutant: the written flag is loaded before the read flag.
BlockedSwapped(r) == << ~written[rd[r].idx], read[rd[r].idx][r] >>

\* The two loads of check(), in their order, and what of them makes the reader wait.
Blocked(r) == << read[rd[r].idx][r], ~written[rd[r].idx] >>

Check(r) ==
  \/ /\ rd[r].pc = "check1"
     /\ Goes(r, IF Blocked(r)[1] THEN "wait" ELSE "check2")
     /\ UNCHANGED <<shm, wr, shutting_down, sockets, log, delivered>>
  \/ /\ rd[r].pc = "check2"
     /\ Goes(r, IF Blocked(r)[2] THEN "wait" ELSE "reading")
     /\ UNCHANGED <<shm, wr, shutting_down, sockets, log, delivered>>

\* The reader's deadline has passed: TimeoutError, and nothing was read.
ReadTimeout(r) ==
  /\ r \in Timed
  /\ rd[r].pc = "wait"
  /\ Goes(r, "idle")
  /\ UNCHANGED <<shm, wr, shutting_down, sockets, log, delivered>>

\* A reader that has read recently spins, any other parks at its sockets.
Spin(r) ==
  /\ rd[r].pc = "wait"
  /\ Goes(r, AfterWait(r))
  /\ UNCHANGED <<shm, wr, shutting_down, sockets, log, delivered>>

Park(r) ==
  /\ rd[r].pc = "wait"
  /\ Goes(r, "parked")
  /\ UNCHANGED <<shm, wr, shutting_down, sockets, log, delivered>>

\* Mutant: without the recheck interval only a cancellation ends the poll, or
\* NotifyReaders.
WakeOnCancel(r) ==
  /\ rd[r].pc = "parked"
  /\ shutting_down[r]
  /\ Goes(r, AfterWait(r))
  /\ UNCHANGED <<shm, wr, shutting_down, sockets, log, delivered>>

\* The poll ends by a cancellation, by a notification that came before, or because
\* the recheck interval is over.
Wake(r) ==
  /\ rd[r].pc = "parked"
  /\ Goes(r, AfterWait(r))
  /\ UNCHANGED <<shm, wr, shutting_down, sockets, log, delivered>>

\* The caller has read the chunk, and the read flag is set.
ReleaseRead(r) ==
  LET k == rd[r].idx
      overflow == data[k] # Torn /\ data[k].overflow
  IN /\ rd[r].pc = "reading"
     /\ read' = [read EXCEPT ![k][r] = TRUE]
     /\ rd' = [rd EXCEPT ![r].idx = NextIdx(@), ![r].pc = IF overflow THEN "recv" ELSE "idle"]
     /\ delivered' = IF overflow THEN delivered
                     ELSE [delivered EXCEPT ![r] =
                             Append(@, IF data[k] = Torn THEN Torn ELSE data[k].msg)]
     /\ UNCHANGED <<written, data, wr, shutting_down, sockets, log>>

\* Mutant: the socket keeps only the last message, like the one for notifications.
ReceivedConflated(r) ==
  /\ sockets[r] # <<>>
  /\ delivered' = [delivered EXCEPT ![r] = Append(@, sockets[r][Len(sockets[r])])]
  /\ sockets' = [sockets EXCEPT ![r] = <<>>]

\* recv() on the reader's socket.
Received(r) ==
  /\ sockets[r] # <<>>
  /\ delivered' = [delivered EXCEPT ![r] = Append(@, Head(sockets[r]))]
  /\ sockets' = [sockets EXCEPT ![r] = Tail(@)]

\* The chunk is released. If recv() times out now, the message that the chunk
\* announced stays in the socket.
RecvOverflow(r) ==
  /\ rd[r].pc = "recv"
  /\ IF sockets[r] # <<>> THEN Received(r)
     ELSE RecvTimeouts /\ r \in Timed /\ UNCHANGED <<sockets, delivered>>
  /\ Goes(r, "idle")
  /\ UNCHANGED <<shm, wr, shutting_down, log>>

\* Another thread of the reader's process sets shutting_down and then cancels the
\* wait. (A reader that wakes in between is one that wakes by itself.)
Shutdown(r) ==
  /\ ~shutting_down[r]
  /\ shutting_down' = [shutting_down EXCEPT ![r] = TRUE]
  /\ UNCHANGED <<shm, wr, rd, sockets, log, delivered>>

DequeueRemote(r) ==
  /\ Received(r)
  /\ UNCHANGED <<shm, wr, rd, shutting_down, log>>

----------------------------------------------------------------------------

WriterStep ==
  \/ AcquireWrite \/ RingFull \/ CheckAgain \/ WriteEnd \/ ResetReadFlag \/ MarkWritten
  \/ SendOverflow \/ NotifyReaders \/ SendRemote

ReaderStep(r) ==
  \/ Dequeue(r) \/ Check(r) \/ ReadTimeout(r) \/ Spin(r) \/ Park(r) \/ Wake(r)
  \/ ReleaseRead(r) \/ RecvOverflow(r)

Next ==
  \/ \E overflow \in BOOLEAN : Enqueue(overflow)
  \/ WriterStep
  \/ \E r \in Local : ReaderStep(r) \/ Shutdown(r)
  \/ \E r \in Remote : DequeueRemote(r)

Spec == Init /\ [][Next]_vars

\* A call of enqueue goes on, and the readers call dequeue again and again, as
\* their loops do. Nothing is assumed of calls of enqueue, notifications and
\* timeouts.
Fairness ==
  /\ WF_vars(WriterStep)
  /\ \A r \in Local : WF_vars(ReaderStep(r))
  /\ \A r \in Remote : WF_vars(DequeueRemote(r))

FairSpec == Spec /\ Fairness

----------------------------------------------------------------------------
(* Properties                                                              *)

\* The variables have their types.
TypeOK ==
  /\ written \in [Chunks -> BOOLEAN]
  /\ read \in [Chunks -> [Local -> BOOLEAN]]
  /\ wr.idx \in Chunks /\ \A r \in Local : rd[r].idx \in Chunks
  /\ \A k \in Chunks : data[k] = Torn \/ data[k].msg \in 1..MaxMessages
  /\ log = [i \in 1..Len(log) |-> i]

\* The writer never touches a chunk that a reader is reading: "cannot write" in the
\* table of the ring's states.
ReadersUndisturbed ==
  \A r \in Local : rd[r].pc = "reading" =>
    /\ written[rd[r].idx] /\ ~read[rd[r].idx][r]
    /\ ~(wr.pc \in {"write", "flags", "mark"} /\ wr.idx = rd[r].idx)

\* A reader can be one message more behind than the ring holds: the message whose
\* chunk it has released and that it is about to take from the socket.
Log == INSTANCE BroadcastLog WITH
  Readers <- Local \cup Remote, Bounded <- Local, Capacity <- MaxChunks, Messages <- 1..MaxMessages

\* Every reader takes every message once and in order, however the steps on the
\* flags, the lapping of the ring and the overflow socket interleave; and the ring
\* holds the writer back, so that no message is dropped at the socket's limit.
ImplementsLog == Log!Spec

\* Every message that was written is read by every reader unless a reader has been
\* shut down, although notifications are lost while a reader parks.
EveryMessageRead ==
  <>[](\/ \E r \in Local : shutting_down[r]
       \/ \A r \in Local \cup Remote : delivered[r] = log)

\* A reader without a timeout whose queue is shut down stops waiting.
ShutdownEnds ==
  \A r \in Local \ Timed : shutting_down[r] ~> rd[r].pc = "cancelled"
=============================================================================
