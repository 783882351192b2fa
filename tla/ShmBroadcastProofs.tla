-------------------------- MODULE ShmBroadcastProofs --------------------------
(***************************************************************************)
(* MessageQueue keeps the writer out of the chunks that are being read,    *)
(* and delivers every message to every reader once and in order, for any   *)
(* number of readers, chunks and messages.                                 *)
(***************************************************************************)
EXTENDS ShmBroadcast, TLAPS

----------------------------------------------------------------------------
(* Sequences                                                               *)

\* The length of a list and its elements.
LEMMA SeqLen ==
  ASSUME NEW S, NEW s \in Seq(S)
  PROVE  /\ Len(s) \in Nat /\ DOMAIN s = 1..Len(s)
         /\ \A i \in 1..Len(s) : s[i] \in S
         /\ s # <<>> => Len(s) >= 1
  OBVIOUS

\* The empty list.
LEMMA SeqEmpty == ASSUME NEW S PROVE <<>> \in Seq(S) /\ Len(<<>>) = 0
  OBVIOUS

\* Lists with the same elements are the same.
LEMMA SeqSame ==
  ASSUME NEW S, NEW s \in Seq(S), NEW t \in Seq(S), Len(s) = Len(t),
         \A i \in 1..Len(s) : s[i] = t[i]
  PROVE  s = t
  OBVIOUS

\* A message is added to a list.
LEMMA SeqAppend ==
  ASSUME NEW S, NEW s \in Seq(S), NEW e \in S
  PROVE  /\ Append(s, e) \in Seq(S)
         /\ Len(Append(s, e)) = Len(s) + 1
         /\ \A i \in 1..Len(s) : Append(s, e)[i] = s[i]
         /\ Append(s, e)[Len(s) + 1] = e
  OBVIOUS

\* The first message of a list is taken.
LEMMA SeqTail ==
  ASSUME NEW S, NEW s \in Seq(S), s # <<>>
  PROVE  /\ Head(s) = s[1] /\ Tail(s) \in Seq(S)
         /\ Len(Tail(s)) = Len(s) - 1
         /\ \A i \in 1..Len(Tail(s)) : Tail(s)[i] = s[i + 1]
  OBVIOUS

----------------------------------------------------------------------------
(* The ring                                                                *)

WriterPCs == {"idle", "check", "full", "write", "flags", "mark", "send", "notify", "remote"}
ReaderPCs == {"idle", "check1", "check2", "wait", "parked", "cancelled", "reading", "recv"}

Types ==
  /\ written \in [Chunks -> BOOLEAN]
  /\ read \in [Chunks -> [Local -> BOOLEAN]]
  /\ wr \in [pc : WriterPCs, idx : Chunks, overflow : BOOLEAN, flag : Local]
  /\ rd \in [Local -> [pc : ReaderPCs, idx : Chunks]]
  /\ log \in Seq(Nat)

\* The chunk that holds message n + 1.
Slot(n) == n % MaxChunks

\* The writer has taken the chunk and not yet given it to the readers.
Writing == wr.pc \in {"write", "flags", "mark"}

\* The messages that are in the ring.
Held(m) ==
  /\ m \in 1..Len(log)
  /\ Len(log) < m + MaxChunks
  /\ Writing => Len(log) + 1 < m + MaxChunks

\* What the flags say of reader r, when it has released c chunks in all: the reader
\* is at the chunk of message c + 1, no more than the ring behind the writer, and
\* its read flag is set in the chunks it has released and in no other.
ReaderAt(r, c) ==
  /\ c \in Nat
  /\ rd[r].idx = Slot(c)
  /\ c <= Len(log)
  /\ Len(log) <= c + MaxChunks
  /\ Writing => Len(log) < c + MaxChunks
  /\ \A m \in Nat : Held(m) => (read[Slot(m - 1)][r] <=> m <= c)
  /\ wr.pc = "flags" /\ r < wr.flag => ~read[wr.idx][r]
  /\ wr.pc = "mark" => ~read[wr.idx][r]
  /\ rd[r].pc = "check2" => ~read[rd[r].idx][r]
  /\ rd[r].pc = "reading" => c < Len(log)

\* The writer is at the chunk of its next message, and the written flag is set in
\* the chunks that hold a message and in no other.
WriterAt ==
  /\ wr.idx = Slot(Len(log))
  /\ \A m \in Nat : Held(m) => written[Slot(m - 1)]
  /\ \A k \in Chunks : k >= Len(log) => ~written[k]
  /\ Writing => ~written[wr.idx]

\* The count of the read flags tells whether all are set.
CountTells == \A rs \in SUBSET Local : Cardinality(rs) = NumLocal => rs = Local

Ring == Types /\ WriterAt /\ \A r \in Local : \E c \in Nat : ReaderAt(r, c)

----------------------------------------------------------------------------
(* Going round the ring                                                    *)

\* The chunk of a message is one of the ring.
LEMMA SlotType == \A n \in Nat : Slot(n) \in Chunks
  BY BroadcastAssumption DEF Slot, Chunks

\* The first messages are in the chunks of their numbers.
LEMMA SlotBelow == \A n \in Nat : n < MaxChunks => Slot(n) = n
  BY BroadcastAssumption DEF Slot

\* The chunk of a message is determined by any way to write its number.
LEMMA SlotUnique ==
  ASSUME NEW n \in Nat, NEW q \in Int, NEW s \in Chunks, n = MaxChunks * q + s
  PROVE  Slot(n) = s
<1> DEFINE p == n \div MaxChunks
           d == p - q
<1>1. /\ MaxChunks \in Nat /\ MaxChunks > 0 /\ p \in Int /\ s \in Int /\ 0 <= s /\ s < MaxChunks
      /\ n = MaxChunks * p + Slot(n) /\ Slot(n) \in Int /\ 0 <= Slot(n) /\ Slot(n) < MaxChunks
  BY BroadcastAssumption DEF Slot, Chunks
<1> HIDE DEF p
<1>2. MaxChunks * d = s - Slot(n) /\ d \in Int
  BY <1>1
<1> HIDE DEF d
<1>3. CASE d <= -1
  <2>1. MaxChunks * d <= - MaxChunks
    BY <1>1, <1>2, <1>3
  <2> QED BY <1>1, <1>2, <2>1
<1>4. CASE d >= 1
  <2>1. MaxChunks * d >= MaxChunks
    BY <1>1, <1>2, <1>4
  <2> QED BY <1>1, <1>2, <2>1
<1>5. CASE d = 0
  BY <1>1, <1>2, <1>5
<1> QED BY <1>2, <1>3, <1>4, <1>5

\* A round later the chunk is the same.
LEMMA SlotRound ==
  ASSUME NEW n \in Nat
  PROVE  Slot(n + MaxChunks) = Slot(n)
<1> DEFINE q == n \div MaxChunks
<1>1. /\ n = MaxChunks * q + Slot(n) /\ q \in Int /\ Slot(n) \in Chunks
      /\ MaxChunks \in Nat /\ Slot(n) \in Nat
  BY BroadcastAssumption, SlotType DEF Slot, Chunks
<1> HIDE DEF q
<1> DEFINE p == q + 1
           m == n + MaxChunks
<1>2. m \in Nat /\ m = MaxChunks * p + Slot(n) /\ p \in Int
  BY <1>1
<1> HIDE DEF p, m
<1>3. Slot(m) = Slot(n)
  BY <1>1, <1>2, SlotUnique
<1> QED BY <1>3 DEF m

\* current_idx + 1, modulo the number of chunks, is the next message's chunk.
LEMMA SlotNext ==
  ASSUME NEW n \in Nat
  PROVE  NextIdx(Slot(n)) = Slot(n + 1)
<1> DEFINE q == n \div MaxChunks
           p == q + 1
           s == Slot(n) + 1
           m == n + 1
<1>1. /\ n = MaxChunks * q + Slot(n) /\ q \in Int /\ Slot(n) \in 0..MaxChunks - 1
      /\ MaxChunks \in Nat /\ MaxChunks > 0
  BY BroadcastAssumption DEF Slot
<1> HIDE DEF q
<1>2. CASE s < MaxChunks
  <2>1. m \in Nat /\ m = MaxChunks * q + s /\ s \in Chunks
    BY <1>1, <1>2 DEF Chunks
  <2>2. s % MaxChunks = s
    BY <1>1, <1>2
  <2> HIDE DEF m, s
  <2>3. Slot(m) = s
    BY <1>1, <2>1, SlotUnique
  <2> QED BY <2>2, <2>3 DEF NextIdx, m, s
<1>3. CASE s = MaxChunks
  <2>1. m \in Nat /\ m = MaxChunks * p + 0 /\ p \in Int /\ 0 \in Chunks
    BY <1>1, <1>3 DEF Chunks
  <2>2. s % MaxChunks = 0
    BY <1>1, <1>3
  <2> HIDE DEF m, s, p
  <2>3. Slot(m) = 0
    BY <1>1, <2>1, SlotUnique, Zenon
  <2> QED BY <2>2, <2>3 DEF NextIdx, m, s
<1> QED BY <1>1, <1>2, <1>3

\* Two messages that are less than a round apart have different chunks.
LEMMA SlotDiffers ==
  ASSUME NEW a \in Nat, NEW b \in Nat, a < b, b < a + MaxChunks
  PROVE  Slot(a) # Slot(b)
<1> DEFINE p == a \div MaxChunks
           q == b \div MaxChunks
<1>1. /\ MaxChunks \in Nat /\ MaxChunks > 0 /\ p \in Int /\ q \in Int
      /\ a = MaxChunks * p + Slot(a) /\ b = MaxChunks * q + Slot(b)
      /\ Slot(a) \in Nat /\ Slot(b) \in Nat
  BY BroadcastAssumption DEF Slot
<1> HIDE DEF p, q
<1>2. SUFFICES ASSUME Slot(a) = Slot(b) PROVE FALSE
  OBVIOUS
<1>3. MaxChunks * (q - p) = b - a
  BY <1>1, <1>2
<1>4. CASE q - p <= 0
  <2>1. MaxChunks * (q - p) <= 0
    BY <1>1, <1>4
  <2> QED BY <2>1, <1>3
<1>5. CASE q - p >= 1
  <2>1. MaxChunks * (q - p) >= MaxChunks
    BY <1>1, <1>5
  <2> QED BY <2>1, <1>3, <1>1
<1> QED BY <1>1, <1>4, <1>5

----------------------------------------------------------------------------
(* What the flags tell                                                     *)

\* A full ring holds in the writer's chunk the oldest message.
LEMMA OldestHeld ==
  ASSUME Types, ~Writing, Len(log) >= MaxChunks
  PROVE  /\ Len(log) + 1 - MaxChunks \in Nat
         /\ Held(Len(log) + 1 - MaxChunks)
         /\ Slot(Len(log) + 1 - MaxChunks - 1) = Slot(Len(log))
<1>1. Len(log) \in Nat /\ MaxChunks \in Nat \ {0}
  BY BroadcastAssumption, SeqLen DEF Types
<1> DEFINE n == Len(log) - MaxChunks
<1>2. n \in Nat /\ n + MaxChunks = Len(log) /\ Len(log) + 1 - MaxChunks - 1 = n
  BY <1>1
<1>3. Slot(Len(log)) = Slot(n)
  BY <1>2, SlotRound
<1> QED BY <1>1, <1>2, <1>3 DEF Held

\* check() of the writer: every reader has released the chunk that it takes.
LEMMA CanWriteFits ==
  ASSUME CountTells, Types, WriterAt, ~Writing, CanWrite, NEW r \in Local, NEW c \in Nat, ReaderAt(r, c)
  PROVE  Len(log) < c + MaxChunks
<1>1. Len(log) \in Nat /\ MaxChunks \in Nat \ {0}
  BY BroadcastAssumption, SeqLen DEF Types
<1>2. SUFFICES ASSUME Len(log) >= MaxChunks PROVE Len(log) < c + MaxChunks
  BY <1>1
<1> DEFINE m == Len(log) + 1 - MaxChunks
<1>3. m \in Nat /\ Held(m) /\ Slot(m - 1) = wr.idx
  BY <1>1, <1>2, OldestHeld DEF WriterAt
<1> HIDE DEF m
<1>4. written[wr.idx]
  BY <1>3 DEF WriterAt
<1>5. {q \in Local : read[wr.idx][q]} = Local
  BY <1>4 DEF CanWrite, CountTells
<1>6. read[wr.idx][r]
  BY <1>5
<1>7. m <= c
  BY <1>3, <1>6 DEF ReaderAt
<1> QED BY <1>1, <1>7 DEF m

\* check() of a reader: the chunk has a message that the reader has not read.
LEMMA CanReadNext ==
  ASSUME Types, WriterAt, NEW r \in Local, NEW c \in Nat, ReaderAt(r, c),
         written[rd[r].idx], ~read[rd[r].idx][r]
  PROVE  c < Len(log)
<1>1. Len(log) \in Nat /\ MaxChunks \in Nat \ {0} /\ c <= Len(log)
  BY BroadcastAssumption, SeqLen DEF Types, ReaderAt
<1>2. SUFFICES ASSUME c = Len(log) PROVE FALSE
  BY <1>1
<1>3. rd[r].idx = wr.idx /\ wr.idx = Slot(Len(log))
  BY <1>2 DEF ReaderAt, WriterAt
<1>4. ~Writing
  BY <1>3 DEF WriterAt
<1>5. Len(log) >= MaxChunks
  <2>1. wr.idx \in Chunks
    BY <1>1, <1>3, SlotType
  <2>2. Slot(Len(log)) < Len(log)
    BY <1>1, <1>3, <2>1 DEF WriterAt, Chunks
  <2> QED BY <1>1, <2>2, SlotBelow
<1> DEFINE m == Len(log) + 1 - MaxChunks
<1>6. m \in Nat /\ Held(m) /\ Slot(m - 1) = wr.idx /\ m <= c
  BY <1>1, <1>2, <1>3, <1>4, <1>5, OldestHeld
<1> HIDE DEF m
<1>7. read[wr.idx][r]
  BY <1>6 DEF ReaderAt
<1> QED BY <1>3, <1>7

\* What a reader can read the writer does not write.
LEMMA ReaderAlone ==
  ASSUME Types, WriterAt, NEW r \in Local, NEW c \in Nat, ReaderAt(r, c), c < Len(log)
  PROVE  /\ Held(c + 1)
         /\ written[rd[r].idx] /\ ~read[rd[r].idx][r]
         /\ Writing => wr.idx # rd[r].idx
<1>1. Len(log) \in Nat /\ MaxChunks \in Nat \ {0} /\ rd[r].idx = Slot(c)
  BY BroadcastAssumption, SeqLen DEF Types, ReaderAt
<1>2. Held(c + 1)
  BY <1>1 DEF Held, ReaderAt
<1>3. c + 1 \in Nat /\ c + 1 - 1 = c /\ ~(c + 1 <= c)
  OBVIOUS
<1>4. written[Slot(c)] /\ ~read[Slot(c)][r]
  BY <1>2, <1>3 DEF WriterAt, ReaderAt
<1>5. Writing => wr.idx # rd[r].idx
  BY <1>1, SlotDiffers DEF WriterAt, ReaderAt
<1> QED BY <1>1, <1>2, <1>4, <1>5

----------------------------------------------------------------------------
(* The steps of the ring                                                   *)

\* Steps that touch neither flags nor messages.
LEMMA Steady ==
  ASSUME Types, WriterAt, UNCHANGED <<written, read, log>>, wr'.idx = wr.idx,
         wr' = wr \/ (~Writing /\ ~Writing'), wr'.pc \notin {"flags", "mark"} \/ wr' = wr,
         NEW r \in Local, NEW c \in Nat, ReaderAt(r, c), rd'[r].idx = rd[r].idx,
         rd'[r].pc = "check2" => ~read[rd[r].idx][r],
         rd'[r].pc = "reading" => c < Len(log)
  PROVE  ReaderAt(r, c)'
<1>1. Writing' = Writing
  BY DEF Writing
<1>2. \A m : Held(m)' = Held(m)
  BY <1>1 DEF Held
<1> QED BY <1>1, <1>2 DEF ReaderAt

\* The same of the writer alone.
LEMMA SteadyWriter ==
  ASSUME Types, WriterAt, UNCHANGED <<written, log>>, wr'.idx = wr.idx,
         wr' = wr \/ (Writing <=> Writing')
  PROVE  WriterAt'
<1>1. Writing <=> Writing'
  BY DEF Writing
<1>2. \A m : Held(m)' <=> Held(m)
  BY <1>1 DEF Held
<1> QED BY <1>1, <1>2 DEF WriterAt

\* Every step keeps the types.
LEMMA TypesStep == Types /\ [Next]_vars => Types'
<1> SUFFICES ASSUME Types, [Next]_vars PROVE Types'
  OBVIOUS
<1>0. /\ MaxChunks \in Nat \ {0} /\ NumLocal \in Nat \ {0}
      /\ \A k \in Chunks : NextIdx(k) \in Chunks
      /\ 1 \in Local
  BY BroadcastAssumption DEF NextIdx, Chunks, Local
<1> USE DEF Types, WriterPCs, ReaderPCs
<1>1. ASSUME NEW overflow \in BOOLEAN, Enqueue(overflow) PROVE Types'
  BY <1>1, Zenon DEF Enqueue, shm
<1>2. CASE AcquireWrite
  BY <1>2, Zenon DEF AcquireWrite
<1>3. CASE RingFull
  BY <1>3, Zenon DEF RingFull, shm
<1>4. CASE CheckAgain
  BY <1>4, Zenon DEF CheckAgain, shm
<1>5. CASE WriteEnd
  BY <1>0, <1>5, Zenon DEF WriteEnd
<1>6. CASE ResetReadFlag
  <2>1. read' \in [Chunks -> [Local -> BOOLEAN]]
    BY <1>6 DEF ResetReadFlag
  <2>2. wr.flag # NumLocal => wr.flag + 1 \in Local
    BY <1>0 DEF Local
  <2>3. wr' \in [pc : WriterPCs, idx : Chunks, overflow : BOOLEAN, flag : Local]
    <3>1. CASE wr.flag = NumLocal
      BY <1>6, <3>1, Zenon DEF ResetReadFlag
    <3>2. CASE wr.flag # NumLocal
      BY <1>6, <2>2, <3>2, Zenon DEF ResetReadFlag
    <3> QED BY <3>1, <3>2
  <2> QED BY <1>6, <2>1, <2>3 DEF ResetReadFlag
<1>7. CASE MarkWritten
  <2>1. wr' \in [pc : WriterPCs, idx : Chunks, overflow : BOOLEAN, flag : Local]
    <3>1. NextIdx(wr.idx) \in Chunks /\ (IF wr.overflow THEN "send" ELSE "notify") \in WriterPCs
      BY <1>0
    <3> QED BY <1>7, <3>1, Zenon DEF MarkWritten
  <2>2. log' \in Seq(Nat)
    <3>1. Message \in Nat
      BY SeqLen DEF Message
    <3> QED BY <1>7, <3>1, SeqAppend DEF MarkWritten
  <2> QED BY <1>7, <2>1, <2>2 DEF MarkWritten
<1>8. CASE SendOverflow
  BY <1>8, Zenon DEF SendOverflow, shm
<1>9. CASE NotifyReaders
  <2>1. PICK reached \in SUBSET {r \in Local : rd[r].pc = "parked"} :
          rd' = [r \in Local |-> IF r \in reached THEN [rd[r] EXCEPT !.pc = AfterWait(r)] ELSE rd[r]]
    BY <1>9, Zenon DEF NotifyReaders
  <2>2. \A r \in Local : AfterWait(r) \in ReaderPCs
    BY DEF AfterWait
  <2>3. rd' \in [Local -> [pc : ReaderPCs, idx : Chunks]]
    BY <2>1, <2>2, ZenonT(30)
  <2>4. wr' \in [pc : WriterPCs, idx : Chunks, overflow : BOOLEAN, flag : Local]
    BY <1>9, Zenon DEF NotifyReaders
  <2> QED BY <1>9, <2>3, <2>4 DEF NotifyReaders, shm
<1>10. CASE SendRemote
  BY <1>10, Zenon DEF SendRemote, shm
<1>11. ASSUME NEW r \in Local, ReaderStep(r) \/ Shutdown(r) PROVE Types'
  <2>1. CASE Dequeue(r)
    BY <2>1 DEF Dequeue, Goes, shm
  <2>2. CASE Check(r)
    <3>1. PICK pc \in {"wait", "check2", "reading"} : Goes(r, pc)
      <4>1. CASE rd[r].pc = "check1"
        BY <2>2, <4>1, Zenon DEF Check
      <4>2. CASE rd[r].pc = "check2"
        BY <2>2, <4>2, Zenon DEF Check
      <4> QED BY <2>2, <4>1, <4>2 DEF Check
    <3>2. rd' \in [Local -> [pc : ReaderPCs, idx : Chunks]]
      BY <3>1, Zenon DEF Goes
    <3> QED BY <2>2, <3>2 DEF Check, shm
  <2>3. CASE ReadTimeout(r)
    BY <2>3 DEF ReadTimeout, Goes, shm
  <2>4. CASE Spin(r)
    BY <2>4 DEF Spin, AfterWait, Goes, shm
  <2>5. CASE Park(r)
    BY <2>5 DEF Park, Goes, shm
  <2>6. CASE Wake(r)
    BY <2>6 DEF Wake, AfterWait, Goes, shm
  <2>7. CASE ReleaseRead(r)
    BY <1>0, <2>7, SMTT(20) DEF ReleaseRead
  <2>8. CASE RecvOverflow(r)
    BY <2>8, Zenon DEF RecvOverflow, Goes, shm
  <2>9. CASE Shutdown(r)
    BY <2>9 DEF Shutdown, shm
  <2> QED BY <1>11, <2>1, <2>2, <2>3, <2>4, <2>5, <2>6, <2>7, <2>8, <2>9 DEF ReaderStep
<1>12. ASSUME NEW r \in Remote, DequeueRemote(r) PROVE Types'
  BY <1>12 DEF DequeueRemote, shm
<1>13. CASE UNCHANGED vars
  BY <1>13 DEF vars, shm
<1> QED BY <1>1, <1>2, <1>3, <1>4, <1>5, <1>6, <1>7, <1>8, <1>9, <1>10, <1>11, <1>12, <1>13
        DEF Next, WriterStep

\* No message in the ring is in the chunk that the writer takes.
LEMMA HeldElsewhere ==
  ASSUME Types, WriterAt, NEW m \in Nat, Held(m), Len(log) + 1 < m + MaxChunks
  PROVE  Slot(m - 1) # wr.idx
<1>1. /\ Len(log) \in Nat /\ MaxChunks \in Nat \ {0}
      /\ m - 1 \in Nat /\ m - 1 < Len(log) /\ Len(log) < m - 1 + MaxChunks
  BY BroadcastAssumption, SeqLen DEF Types, Held
<1> QED BY <1>1, SlotDiffers DEF WriterAt

\* acquire_write() clears the written flag of a chunk that all have read.
LEMMA AcquireWriteRing ==
  ASSUME CountTells, Types, WriterAt, AcquireWrite
  PROVE  /\ WriterAt'
         /\ \A r \in Local, c \in Nat : ReaderAt(r, c) => ReaderAt(r, c)'
<1>1. /\ ~Writing /\ Writing' /\ wr'.idx = wr.idx /\ wr'.pc = "write" /\ CanWrite
      /\ written' = [written EXCEPT ![wr.idx] = FALSE]
      /\ read' = read /\ log' = log /\ rd' = rd
  BY DEF AcquireWrite, Writing, Types
<1>2. ASSUME NEW m \in Nat, Held(m)'
      PROVE  Held(m) /\ Slot(m - 1) # wr.idx
  <2>1. Held(m) /\ Len(log) + 1 < m + MaxChunks
    BY <1>1, <1>2 DEF Held
  <2> QED BY <2>1, HeldElsewhere
<1>3. WriterAt'
  <2>1. \A m \in Nat : Held(m)' => written'[Slot(m - 1)]
    BY <1>1, <1>2 DEF WriterAt, Types
  <2>2. \A k \in Chunks : k >= Len(log) => ~written'[k]
    BY <1>1 DEF WriterAt, Types
  <2>3. ~written'[wr.idx]
    BY <1>1 DEF Types
  <2> QED BY <1>1, <2>1, <2>2, <2>3 DEF WriterAt
<1>4. ASSUME NEW r \in Local, NEW c \in Nat, ReaderAt(r, c)
      PROVE  ReaderAt(r, c)'
  <2>1. Len(log) < c + MaxChunks
    BY <1>1, <1>4, CanWriteFits
  <2> QED BY <1>1, <1>2, <1>4, <2>1 DEF ReaderAt
<1> QED BY <1>3, <1>4

\* The message is in the chunk; the flags are next.
LEMMA WriteEndRing ==
  ASSUME Types, WriterAt, WriteEnd
  PROVE  /\ WriterAt'
         /\ \A r \in Local, c \in Nat : ReaderAt(r, c) => ReaderAt(r, c)'
<1>1. /\ Writing /\ Writing' /\ wr'.idx = wr.idx /\ wr'.pc = "flags" /\ wr'.flag = 1
      /\ UNCHANGED <<written, read, log, rd>>
  BY DEF WriteEnd, Writing, Types
<1>2. \A m : Held(m)' <=> Held(m)
  BY <1>1 DEF Held
<1>3. WriterAt'
  BY <1>1, SteadyWriter
<1>4. ASSUME NEW r \in Local, NEW c \in Nat, ReaderAt(r, c)
      PROVE  ReaderAt(r, c)'
  <2>1. ~(r < 1)
    BY BroadcastAssumption DEF Local
  <2> QED BY <1>1, <1>2, <1>4, <2>1 DEF ReaderAt
<1> QED BY <1>3, <1>4

\* The writer clears the read flag of one reader.
LEMMA ResetReadFlagRing ==
  ASSUME Types, WriterAt, ResetReadFlag
  PROVE  /\ WriterAt'
         /\ \A r \in Local, c \in Nat : ReaderAt(r, c) => ReaderAt(r, c)'
<1>1. /\ Writing /\ wr.pc = "flags"
      /\ read' = [read EXCEPT ![wr.idx][wr.flag] = FALSE]
      /\ UNCHANGED <<written, log, rd>>
  BY DEF ResetReadFlag, Writing, Types
<1>2. /\ wr'.idx = wr.idx
      /\ \/ wr.flag = NumLocal /\ wr'.pc = "mark"
         \/ wr.flag # NumLocal /\ wr'.pc = "flags" /\ wr'.flag = wr.flag + 1
  BY DEF ResetReadFlag, Types
<1>3. Writing'
  BY <1>2 DEF Writing
<1>4. \A m : Held(m)' <=> Held(m)
  BY <1>1, <1>3 DEF Held
<1>5. WriterAt'
  BY <1>1, <1>2, <1>3, SteadyWriter
<1>6. ASSUME NEW r \in Local, NEW c \in Nat, ReaderAt(r, c)
      PROVE  ReaderAt(r, c)'
  <2>1. /\ \A k \in Chunks : k # wr.idx => read'[k][r] = read[k][r]
        /\ \A k \in Chunks : read'[k][r] => read[k][r]
        /\ r # wr.flag => read'[wr.idx][r] = read[wr.idx][r]
        /\ r = wr.flag => ~read'[wr.idx][r]
    BY <1>1, Zenon DEF Types
  <2>2. ASSUME NEW m \in Nat, Held(m)
        PROVE  read'[Slot(m - 1)][r] <=> m <= c
    <3>1. Slot(m - 1) # wr.idx /\ Slot(m - 1) \in Chunks
      BY <1>1, <2>2, HeldElsewhere, SlotType DEF Held
    <3> QED BY <1>6, <2>1, <2>2, <3>1 DEF ReaderAt
  <2>3. /\ wr'.pc = "flags" /\ r < wr'.flag => ~read'[wr.idx][r]
        /\ wr'.pc = "mark" => ~read'[wr.idx][r]
    <3>1. r < wr.flag \/ r = wr.flag => ~read'[wr.idx][r]
      BY <1>1, <1>6, <2>1 DEF ReaderAt
    <3>2. /\ r \in Nat /\ wr.flag \in Nat /\ r <= NumLocal
          /\ (r < wr.flag + 1 => r < wr.flag \/ r = wr.flag)
      BY BroadcastAssumption DEF Local, Types
    <3> QED BY <1>2, <3>1, <3>2
  <2>4. rd[r].pc = "check2" => ~read'[rd[r].idx][r]
    BY <1>6, <2>1 DEF ReaderAt, Types
  <2> QED BY <1>1, <1>2, <1>3, <1>4, <1>6, <2>2, <2>3, <2>4 DEF ReaderAt
<1> QED BY <1>5, <1>6

\* The written flag makes the message readable and the writer moves on.
LEMMA MarkWrittenRing ==
  ASSUME Types, WriterAt, MarkWritten
  PROVE  /\ WriterAt'
         /\ \A r \in Local, c \in Nat : ReaderAt(r, c) => ReaderAt(r, c)'
<1>0. Len(log) \in Nat /\ MaxChunks \in Nat \ {0}
  BY BroadcastAssumption, SeqLen DEF Types
<1>1. /\ Writing /\ wr.pc = "mark" /\ ~Writing' /\ wr'.pc \in {"send", "notify"}
      /\ wr'.idx = NextIdx(wr.idx)
      /\ written' = [written EXCEPT ![wr.idx] = TRUE]
      /\ read' = read /\ rd' = rd
  BY DEF MarkWritten, Writing, Types
<1>2. Len(log') = Len(log) + 1
  BY <1>0, SeqAppend DEF MarkWritten, Message, Types
<1>3. ASSUME NEW m \in Nat, Held(m)'
      PROVE  \/ m = Len(log) + 1 /\ Slot(m - 1) = wr.idx
             \/ Held(m) /\ Slot(m - 1) # wr.idx
  <2>1. m \in 1..Len(log) + 1 /\ Len(log) + 1 < m + MaxChunks
    BY <1>2, <1>3 DEF Held
  <2>2. CASE m = Len(log) + 1
    BY <1>0, <2>2 DEF WriterAt
  <2>3. CASE m # Len(log) + 1
    <3>1. Held(m)
      BY <1>0, <2>1, <2>3 DEF Held
    <3> QED BY <2>1, <3>1, HeldElsewhere
  <2> QED BY <2>2, <2>3
<1>4. WriterAt'
  <2>1. wr'.idx = Slot(Len(log'))
    BY <1>0, <1>1, <1>2, SlotNext DEF WriterAt
  <2>2. \A m \in Nat : Held(m)' => written'[Slot(m - 1)]
    BY <1>1, <1>3 DEF WriterAt, Types
  <2>3. ASSUME NEW k \in Chunks, k >= Len(log')
        PROVE  ~written'[k]
    <3>1. k \in Nat /\ k < MaxChunks /\ k > Len(log)
      BY <1>0, <1>2, <2>3 DEF Chunks
    <3>2. wr.idx = Len(log)
      BY <1>0, <3>1, SlotBelow DEF WriterAt
    <3> QED BY <1>0, <1>1, <3>1, <3>2 DEF WriterAt, Types
  <2> QED BY <1>1, <2>1, <2>2, <2>3 DEF WriterAt
<1>5. ASSUME NEW r \in Local, NEW c \in Nat, ReaderAt(r, c)
      PROVE  ReaderAt(r, c)'
  <2>1. /\ c <= Len(log') /\ Len(log') <= c + MaxChunks
        /\ c < Len(log) => c < Len(log')
    BY <1>0, <1>1, <1>2, <1>5 DEF ReaderAt
  <2>2. ASSUME NEW m \in Nat, Held(m)'
        PROVE  read[Slot(m - 1)][r] <=> m <= c
    <3>1. CASE m = Len(log) + 1 /\ Slot(m - 1) = wr.idx
      BY <1>0, <1>1, <1>5, <3>1 DEF ReaderAt
    <3>2. CASE Held(m)
      BY <1>5, <3>2 DEF ReaderAt
    <3> QED BY <1>3, <2>2, <3>1, <3>2
  <2> QED BY <1>1, <1>5, <2>1, <2>2 DEF ReaderAt
<1> QED BY <1>4, <1>5

\* A reader sets its flag and moves on to the next message.
LEMMA ReleaseReadRing ==
  ASSUME Types, WriterAt, NEW q \in Local, ReleaseRead(q)
  PROVE  /\ WriterAt'
         /\ \A r \in Local \ {q}, c \in Nat : ReaderAt(r, c) => ReaderAt(r, c)'
         /\ \A c \in Nat : ReaderAt(q, c) => ReaderAt(q, c + 1)'
<1>0. Len(log) \in Nat /\ MaxChunks \in Nat \ {0}
  BY BroadcastAssumption, SeqLen DEF Types
<1>1. /\ UNCHANGED <<written, wr, log>>
      /\ rd[q].pc = "reading" /\ rd[q].idx \in Chunks
      /\ read' = [read EXCEPT ![rd[q].idx][q] = TRUE]
      /\ rd'[q].idx = NextIdx(rd[q].idx) /\ rd'[q].pc \in {"recv", "idle"}
      /\ \A r \in Local \ {q} : rd'[r] = rd[r]
  BY DEF ReleaseRead, Types
<1>2. (Writing' <=> Writing) /\ \A m : Held(m)' <=> Held(m)
  BY <1>1 DEF Held, Writing
<1>3. WriterAt'
  BY <1>1, <1>2, SteadyWriter
<1>4. ASSUME NEW r \in Local \ {q}, NEW c \in Nat, ReaderAt(r, c)
      PROVE  ReaderAt(r, c)'
  <2>1. \A k \in Chunks : read'[k][r] = read[k][r]
    BY <1>1 DEF Types
  <2>2. \A m \in Nat : Held(m) => Slot(m - 1) \in Chunks
    BY SlotType DEF Held
  <2>3. \A m \in Nat : Held(m) => (read'[Slot(m - 1)][r] <=> m <= c)
    BY <1>4, <2>1, <2>2 DEF ReaderAt
  <2>4. wr.idx \in Chunks /\ rd[r].idx \in Chunks
    BY DEF Types
  <2> QED BY <1>1, <1>2, <1>4, <2>1, <2>3, <2>4 DEF ReaderAt
<1>5. ASSUME NEW c \in Nat, ReaderAt(q, c)
      PROVE  ReaderAt(q, c + 1)'
  <2>1. c < Len(log) /\ rd[q].idx = Slot(c)
    BY <1>1, <1>5 DEF ReaderAt
  <2>2. Held(c + 1) /\ (Writing => wr.idx # rd[q].idx)
    BY <1>5, <2>1, ReaderAlone
  <2>3. /\ read'[Slot(c)][q]
        /\ \A k \in Chunks : k # Slot(c) => read'[k][q] = read[k][q]
    BY <1>1, <2>1 DEF Types
  <2>4. ASSUME NEW m \in Nat, Held(m)
        PROVE  read'[Slot(m - 1)][q] <=> m <= c + 1
    <3>1. CASE m = c + 1
      BY <2>3, <3>1
    <3>2. CASE m # c + 1
      <4>1. /\ m - 1 \in Nat /\ m - 1 # c
            /\ m - 1 < c + MaxChunks /\ c < m - 1 + MaxChunks
        BY <1>0, <2>1, <2>2, <2>4, <3>2 DEF Held
      <4>2. Slot(m - 1) # Slot(c) /\ Slot(m - 1) \in Chunks
        BY <1>0, <4>1, SlotDiffers, SlotType
      <4>3. read'[Slot(m - 1)][q] <=> m <= c
        BY <1>5, <2>3, <2>4, <4>2 DEF ReaderAt
      <4> QED BY <3>2, <4>3
    <3> QED BY <3>1, <3>2
  <2>5. Writing => read'[wr.idx][q] = read[wr.idx][q]
    BY <2>1, <2>2, <2>3 DEF Types
  <2>6. /\ wr.pc = "flags" /\ q < wr.flag => ~read'[wr.idx][q]
        /\ wr.pc = "mark" => ~read'[wr.idx][q]
    BY <1>5, <2>5 DEF ReaderAt, Writing
  <2>7. rd'[q].idx = Slot(c + 1)
    BY <1>1, <2>1, SlotNext
  <2>8. /\ c + 1 \in Nat /\ c + 1 <= Len(log) /\ Len(log) <= c + 1 + MaxChunks
        /\ Writing => Len(log) < c + 1 + MaxChunks
    BY <1>0, <1>5, <2>1 DEF ReaderAt
  <2> QED BY <1>1, <1>2, <2>4, <2>6, <2>7, <2>8 DEF ReaderAt
<1> QED BY <1>3, <1>4, <1>5

\* Every step but the release of a chunk.
Releasing == \E q \in Local : ReleaseRead(q)
OtherStep ==
  \/ \E overflow \in BOOLEAN : Enqueue(overflow)
  \/ WriterStep
  \/ \E r \in Local : \/ Dequeue(r) \/ Check(r) \/ ReadTimeout(r) \/ Spin(r) \/ Park(r) \/ Wake(r)
                      \/ RecvOverflow(r) \/ Shutdown(r)
  \/ \E r \in Remote : DequeueRemote(r)
  \/ UNCHANGED vars

\* A step releases a chunk or does not.
LEMMA TwoKindsOfSteps == [Next]_vars => Releasing \/ OtherStep
  BY Zenon DEF Next, ReaderStep, Releasing, OtherStep

\* A check() of the reader that succeeds.
LEMMA CheckRing ==
  ASSUME Types, WriterAt, NEW q \in Local, Check(q)
  PROVE  /\ WriterAt'
         /\ \A r \in Local, c \in Nat : ReaderAt(r, c) => ReaderAt(r, c)'
<1>1. /\ UNCHANGED <<written, read, log, wr>>
      /\ \A r \in Local : rd'[r].idx = rd[r].idx
      /\ \A r \in Local \ {q} : rd'[r].pc = rd[r].pc
  <2>1. \E pc : Goes(q, pc)
    BY Zenon DEF Check
  <2> QED BY <2>1 DEF Check, Goes, shm, Types
<1>2. WriterAt'
  BY <1>1, SteadyWriter
<1>3. /\ rd'[q].pc = "check2" => ~read[rd[q].idx][q]
      /\ rd'[q].pc = "reading" => rd[q].pc = "check2" /\ written[rd[q].idx]
  <2>1. CASE rd[q].pc = "check1"
    BY <2>1 DEF Check, Goes, Blocked, Types
  <2>2. CASE rd[q].pc = "check2"
    <3>1. CASE written[rd[q].idx]
      BY <2>2, <3>1 DEF Check, Goes, Types
    <3>2. CASE ~written[rd[q].idx]
      <4>1. Blocked(q)[2]
        BY <3>2, Zenon DEF Blocked
      <4> QED BY <2>2, <4>1 DEF Check, Goes, Types
    <3> QED BY <3>1, <3>2
  <2> QED BY <2>1, <2>2 DEF Check
<1>4. ASSUME NEW r \in Local, NEW c \in Nat, ReaderAt(r, c)
      PROVE  ReaderAt(r, c)'
  <2>1. /\ rd'[r].pc = "check2" => ~read[rd[r].idx][r]
        /\ rd'[r].pc = "reading" => c < Len(log)
    <3>1. CASE r = q
      <4>1. rd'[q].pc = "reading" => c < Len(log)
        BY <1>3, <1>4, <3>1, CanReadNext DEF ReaderAt
      <4> QED BY <1>3, <3>1, <4>1
    <3>2. CASE r # q
      BY <1>1, <1>4, <3>2 DEF ReaderAt
    <3> QED BY <3>1, <3>2
  <2> QED BY <1>1, <1>4, <2>1, Steady
<1> QED BY <1>2, <1>4

\* Steps that release no chunk keep every reader's place.
LEMMA OtherStepRing ==
  ASSUME CountTells, Types, WriterAt, OtherStep
  PROVE  /\ WriterAt'
         /\ \A r \in Local, c \in Nat : ReaderAt(r, c) => ReaderAt(r, c)'
<1> DEFINE Goal == /\ WriterAt'
                   /\ \A r \in Local, c \in Nat : ReaderAt(r, c) => ReaderAt(r, c)'
<1>1. ASSUME UNCHANGED <<written, read, log>>, wr'.idx = wr.idx,
             wr' = wr \/ (~Writing /\ ~Writing'),
             \A r \in Local : /\ rd'[r].idx = rd[r].idx
                              /\ rd'[r].pc \in {"check2", "reading"} => rd'[r].pc = rd[r].pc
      PROVE  Goal
  <2>1. wr' = wr \/ (Writing <=> Writing')
    BY <1>1
  <2>2. WriterAt'
    BY <1>1, <2>1, SteadyWriter
  <2>3. wr'.pc \notin {"flags", "mark"} \/ wr' = wr
    BY <1>1 DEF Writing
  <2>4. ASSUME NEW r \in Local, NEW c \in Nat, ReaderAt(r, c)
        PROVE  ReaderAt(r, c)'
    <3>1. /\ rd[r].pc = "check2" => ~read[rd[r].idx][r]
          /\ rd[r].pc = "reading" => c < Len(log)
      BY <2>4 DEF ReaderAt
    <3>2. /\ rd'[r].pc = "check2" => ~read[rd[r].idx][r]
          /\ rd'[r].pc = "reading" => c < Len(log)
      BY <1>1, <3>1
    <3> QED BY <1>1, <2>3, <2>4, <3>2, Steady
  <2> QED BY <2>2, <2>4
<1> SUFFICES Goal
  OBVIOUS
<1> HIDE DEF Goal
<1>0. ASSUME UNCHANGED <<written, read, log>>, wr'.idx = wr.idx, rd' = rd,
             ~Writing, ~Writing'
      PROVE  Goal
  BY <1>0, <1>1
<1>2. ASSUME NEW overflow \in BOOLEAN, Enqueue(overflow) PROVE Goal
  <2>1. /\ UNCHANGED <<written, read, log>> /\ wr'.idx = wr.idx /\ rd' = rd
        /\ ~Writing /\ ~Writing'
    BY <1>2 DEF Enqueue, shm, Writing, Types
  <2> QED BY <1>0, <2>1
<1>3. CASE AcquireWrite
  BY <1>3, AcquireWriteRing DEF Goal
<1>4. CASE RingFull
  <2>1. /\ UNCHANGED <<written, read, log>> /\ wr'.idx = wr.idx /\ rd' = rd
        /\ ~Writing /\ ~Writing'
    BY <1>4 DEF RingFull, shm, Writing, Types
  <2> QED BY <1>0, <2>1
<1>5. CASE CheckAgain
  <2>1. /\ UNCHANGED <<written, read, log>> /\ wr'.idx = wr.idx /\ rd' = rd
        /\ ~Writing /\ ~Writing'
    BY <1>5 DEF CheckAgain, shm, Writing, Types
  <2> QED BY <1>0, <2>1
<1>6. CASE WriteEnd
  BY <1>6, WriteEndRing DEF Goal
<1>7. CASE ResetReadFlag
  BY <1>7, ResetReadFlagRing DEF Goal
<1>8. CASE MarkWritten
  BY <1>8, MarkWrittenRing DEF Goal
<1>9. CASE SendOverflow
  <2>1. /\ UNCHANGED <<written, read, log>> /\ wr'.idx = wr.idx /\ rd' = rd
        /\ ~Writing /\ ~Writing'
    BY <1>9 DEF SendOverflow, shm, Writing, Types
  <2> QED BY <1>0, <2>1
<1>10. CASE NotifyReaders
  <2>1. PICK reached \in SUBSET {r \in Local : rd[r].pc = "parked"} :
          rd' = [r \in Local |-> IF r \in reached THEN [rd[r] EXCEPT !.pc = AfterWait(r)] ELSE rd[r]]
    BY <1>10 DEF NotifyReaders
  <2>2. \A r \in Local : /\ rd'[r].idx = rd[r].idx
                         /\ rd'[r].pc \in {"check2", "reading"} => rd'[r].pc = rd[r].pc
    BY <2>1 DEF AfterWait, Types
  <2>3. UNCHANGED <<written, read, log>> /\ wr'.idx = wr.idx /\ ~Writing /\ ~Writing'
    BY <1>10 DEF NotifyReaders, shm, Writing, Types
  <2> QED BY <1>1, <2>2, <2>3
<1>11. CASE SendRemote
  <2>1. /\ UNCHANGED <<written, read, log>> /\ wr'.idx = wr.idx /\ rd' = rd
        /\ ~Writing /\ ~Writing'
    BY <1>11 DEF SendRemote, shm, Writing, Types
  <2> QED BY <1>0, <2>1
<1>12. ASSUME NEW q \in Local, NEW pc \in {"idle", "check1", "wait", "parked", "cancelled"},
              Goes(q, pc), UNCHANGED <<written, read, log, wr>>
       PROVE  Goal
  <2>1. \A r \in Local : /\ rd'[r].idx = rd[r].idx
                         /\ rd'[r].pc \in {"check2", "reading"} => rd'[r].pc = rd[r].pc
    BY <1>12 DEF Goes, Types
  <2> QED BY <1>1, <1>12, <2>1
<1>13. ASSUME NEW q \in Local,
              \/ Dequeue(q) \/ ReadTimeout(q) \/ Spin(q) \/ Park(q) \/ Wake(q) \/ RecvOverflow(q)
       PROVE  Goal
  <2>1. UNCHANGED <<written, read, log, wr>>
    BY <1>13 DEF Dequeue, ReadTimeout, Spin, Park, Wake, RecvOverflow, shm
  <2>2. \E pc \in {"idle", "check1", "wait", "parked", "cancelled"} : Goes(q, pc)
    <3>1. AfterWait(q) \in {"cancelled", "check1"}
      BY DEF AfterWait
    <3> QED BY <1>13, <3>1 DEF Dequeue, ReadTimeout, Spin, Park, Wake, RecvOverflow
  <2> QED BY <1>12, <2>1, <2>2
<1>14. ASSUME NEW q \in Local, Check(q) PROVE Goal
  BY <1>14, CheckRing DEF Goal
<1>15. ASSUME NEW q \in Local, Shutdown(q) PROVE Goal
  <2>1. UNCHANGED <<written, read, log, wr, rd>>
    BY <1>15 DEF Shutdown, shm
  <2> QED BY <1>1, <2>1
<1>16. ASSUME NEW q \in Remote, DequeueRemote(q) PROVE Goal
  <2>1. UNCHANGED <<written, read, log, wr, rd>>
    BY <1>16 DEF DequeueRemote, shm
  <2> QED BY <1>1, <2>1
<1>17. CASE UNCHANGED vars
  <2>1. UNCHANGED <<written, read, log, wr, rd>>
    BY <1>17 DEF vars, shm
  <2> QED BY <1>1, <2>1
<1> QED BY <1>2, <1>3, <1>4, <1>5, <1>6, <1>7, <1>8, <1>9, <1>10, <1>11, <1>13, <1>14, <1>15,
           <1>16, <1>17, Zenon DEF OtherStep, WriterStep

----------------------------------------------------------------------------
(* The ring is kept                                                        *)

\* An empty ring, with all readers at the first message.
LEMMA InitRing == Init => Ring /\ \A r \in Local : ReaderAt(r, 0)
<1> SUFFICES ASSUME Init PROVE Ring /\ \A r \in Local : ReaderAt(r, 0)
  OBVIOUS
<1>1. /\ MaxChunks \in Nat \ {0} /\ 0 \in Chunks /\ 1 \in Local /\ Slot(0) = 0 /\ Len(log) = 0
  BY BroadcastAssumption, SlotBelow DEF Chunks, Local, Init
<1>2. Types
  BY <1>1 DEF Init, Types, WriterPCs, ReaderPCs
<1>3. \A m : ~Held(m)
  BY <1>1 DEF Held
<1>4. WriterAt
  BY <1>1, <1>3 DEF WriterAt, Init, Writing
<1>5. \A r \in Local : ReaderAt(r, 0)
  BY <1>1, <1>3 DEF ReaderAt, Init, Writing
<1> QED BY <1>2, <1>4, <1>5 DEF Ring

\* Every step keeps the ring, for any number of readers and chunks.
LEMMA NextRing ==
  ASSUME CountTells, Ring, [Next]_vars
  PROVE  Ring'
<1>1. Types /\ WriterAt /\ Types'
  BY TypesStep DEF Ring
<1>2. CASE Releasing
  <2>1. PICK q \in Local : ReleaseRead(q)
    BY <1>2 DEF Releasing
  <2>2. /\ WriterAt'
        /\ \A r \in Local \ {q}, c \in Nat : ReaderAt(r, c) => ReaderAt(r, c)'
        /\ \A c \in Nat : ReaderAt(q, c) => ReaderAt(q, c + 1)'
    BY <1>1, <2>1, ReleaseReadRing
  <2>3. ASSUME NEW r \in Local PROVE \E c \in Nat : ReaderAt(r, c)'
    <3>1. PICK c \in Nat : ReaderAt(r, c)
      BY DEF Ring
    <3>2. c + 1 \in Nat
      OBVIOUS
    <3> QED BY <2>2, <3>1, <3>2
  <2> QED BY <1>1, <2>2, <2>3 DEF Ring
<1>3. CASE OtherStep
  BY <1>1, <1>3, OtherStepRing DEF Ring
<1> QED BY <1>2, <1>3, TwoKindsOfSteps

\* A reader between acquire_read and the release of its chunk is alone with it.
LEMMA RingUndisturbed == Ring => ReadersUndisturbed
<1> SUFFICES ASSUME Ring, NEW r \in Local, rd[r].pc = "reading"
             PROVE  /\ written[rd[r].idx] /\ ~read[rd[r].idx][r]
                    /\ ~(wr.pc \in {"write", "flags", "mark"} /\ wr.idx = rd[r].idx)
  BY DEF ReadersUndisturbed
<1>1. PICK c \in Nat : ReaderAt(r, c)
  BY DEF Ring
<1>2. c < Len(log)
  BY <1>1 DEF ReaderAt
<1> QED BY <1>1, <1>2, ReaderAlone DEF Ring, Writing

----------------------------------------------------------------------------
(* What is delivered                                                       *)

Readers == Local \cup Remote
Content == [msg : Nat, overflow : BOOLEAN]

\* The chunks that reader r has released: one more than the messages it has taken
\* while it waits for the one that the chunk announced.
Released(r) == Len(delivered[r]) + (IF rd[r].pc = "recv" THEN 1 ELSE 0)

\* The messages sent to the remote readers.
SentRemote == IF wr.pc \in {"send", "notify", "remote"} THEN Len(log) - 1 ELSE Len(log)

\* The messages that are on their way to reader r by socket.
UnderWay(r) ==
  {m \in Nat :
     /\ Len(delivered[r]) < m
     /\ IF r \in Local
        THEN /\ m <= Len(log)
             /\ wr.pc = "send" => m # Len(log)
             /\ Released(r) < m => data[Slot(m - 1)].overflow
        ELSE m <= SentRemote}

\* s lists the numbers in S in increasing order.
Lists(s, S) ==
  /\ s \in Seq(Nat)
  /\ \A i, j \in 1..Len(s) : i < j => s[i] < s[j]
  /\ \A m : m \in S <=> \E i \in 1..Len(s) : s[i] = m

Upto(n) == [i \in 1..n |-> i]

\* Every message in the ring is in its chunk, and the writer announces what it sends.
DataInv ==
  /\ data \in [Chunks -> {Torn} \cup Content]
  /\ \A m \in Nat : Held(m) => data[Slot(m - 1)] \in Content /\ data[Slot(m - 1)].msg = m
  /\ wr.pc \in {"flags", "mark"} => data[wr.idx] = [msg |-> Message, overflow |-> wr.overflow]
  /\ wr.pc \in {"send", "notify", "remote"} => Len(log) > 0
  /\ wr.pc = "send" => data[Slot(Len(log) - 1)].overflow
  /\ wr.pc \in {"check", "full", "write", "flags", "mark"} => Len(log) < MaxMessages

\* Reader r has taken the first messages, and the rest of them is in the ring or on
\* its way.
Stream(r) ==
  /\ delivered[r] = Upto(Len(delivered[r]))
  /\ Lists(sockets[r], UnderWay(r))
  /\ IF r \in Local THEN wr.pc = "send" => Len(delivered[r]) < Len(log)
     ELSE Len(delivered[r]) <= SentRemote

StreamTypes ==
  /\ delivered \in [Readers -> Seq(Nat)]
  /\ sockets \in [Readers -> Seq(Nat)]
  /\ log = Upto(Len(log))

Streams ==
  /\ Types /\ WriterAt /\ DataInv /\ StreamTypes
  /\ \A r \in Local : ReaderAt(r, Released(r))
  /\ \A r \in Readers : Stream(r)

----------------------------------------------------------------------------
(* Messages in order                                                       *)

\* 1, 2, ..., n has n elements.
LEMMA UptoLen == \A n \in Nat : Upto(n) \in Seq(Nat) /\ Len(Upto(n)) = n
<1> SUFFICES ASSUME NEW n \in Nat PROVE Upto(n) \in Seq(Nat) /\ Len(Upto(n)) = n
  OBVIOUS
<1>1. Upto(n) \in Seq(Nat) /\ DOMAIN Upto(n) = 1..n
  BY DEF Upto
<1>2. Len(Upto(n)) \in Nat /\ 1..Len(Upto(n)) = 1..n
  BY <1>1, SeqLen
<1> QED BY <1>1, <1>2

\* The next message of a list without gaps.
LEMMA AppendUpto ==
  ASSUME NEW n \in Nat
  PROVE  Append(Upto(n), n + 1) = Upto(n + 1)
<1>1. Upto(n) \in Seq(Nat) /\ Len(Upto(n)) = n /\ n + 1 \in Nat
  BY UptoLen
<1>2. Upto(n + 1) \in Seq(Nat) /\ Len(Upto(n + 1)) = n + 1
  BY <1>1, UptoLen
<1>3. /\ Append(Upto(n), n + 1) \in Seq(Nat) /\ Len(Append(Upto(n), n + 1)) = n + 1
      /\ \A i \in 1..n : Append(Upto(n), n + 1)[i] = Upto(n)[i]
      /\ Append(Upto(n), n + 1)[n + 1] = n + 1
  BY <1>1, SeqAppend
<1>4. \A i \in 1..n + 1 : Append(Upto(n), n + 1)[i] = Upto(n + 1)[i]
  BY <1>3 DEF Upto
<1> QED BY <1>2, <1>3, <1>4, SeqSame

\* A message newer than all of a socket's is added behind them.
LEMMA ListsAppend ==
  ASSUME NEW s, NEW S, Lists(s, S), NEW n \in Nat, \A m \in S : m < n
  PROVE  Lists(Append(s, n), S \cup {n})
<1> DEFINE t == Append(s, n)
<1>1. s \in Seq(Nat) /\ Len(s) \in Nat
  BY SeqLen DEF Lists
<1>2. /\ t \in Seq(Nat) /\ Len(t) = Len(s) + 1
      /\ \A i \in 1..Len(s) : t[i] = s[i]
      /\ t[Len(s) + 1] = n
  BY <1>1, SeqAppend
<1> HIDE DEF t
<1>3. \A i \in 1..Len(s) : s[i] \in S
  BY DEF Lists
<1>4. ASSUME NEW i \in 1..Len(t), NEW j \in 1..Len(t), i < j PROVE t[i] < t[j]
  <2>1. i \in 1..Len(s) /\ t[i] = s[i] /\ s[i] < n
    BY <1>1, <1>2, <1>3, <1>4, SMTT(20)
  <2>2. CASE j \in 1..Len(s)
    BY <1>2, <1>4, <2>1, <2>2, SMTT(20) DEF Lists
  <2>3. CASE j = Len(s) + 1
    BY <1>2, <2>1, <2>3
  <2> QED BY <1>1, <1>2, <2>2, <2>3
<1>5. ASSUME NEW m PROVE m \in S \cup {n} <=> \E i \in 1..Len(t) : t[i] = m
  <2>1. \A i \in 1..Len(s) : i \in 1..Len(t)
    BY <1>1, <1>2
  <2>2. Len(s) + 1 \in 1..Len(t) /\ \A i \in 1..Len(t) : i \in 1..Len(s) \/ i = Len(s) + 1
    BY <1>1, <1>2
  <2> QED BY <1>2, <2>1, <2>2, SMTT(20) DEF Lists
<1>6. Lists(t, S \cup {n})
  BY <1>2, <1>4, <1>5 DEF Lists
<1> QED BY <1>6 DEF t

\* A socket gives its oldest message.
LEMMA ListsTail ==
  ASSUME NEW s, NEW S, Lists(s, S), s # <<>>
  PROVE  /\ Head(s) \in S /\ Head(s) \in Nat
         /\ \A m \in S : Head(s) <= m
         /\ Lists(Tail(s), S \ {Head(s)})
<1> DEFINE t == Tail(s)
<1>1. s \in Seq(Nat) /\ Len(s) \in Nat /\ Len(s) >= 1
  BY SeqLen DEF Lists
<1>2. /\ t \in Seq(Nat) /\ Len(t) = Len(s) - 1 /\ Head(s) = s[1]
      /\ \A i \in 1..Len(t) : t[i] = s[i + 1]
  BY <1>1, SeqTail
<1> HIDE DEF t
<1>3. 1 \in 1..Len(s) /\ s[1] \in S /\ s[1] \in Nat /\ \A i \in 1..Len(s) : s[i] \in Nat
  BY <1>1, SeqLen DEF Lists
<1>4. \A i \in 1..Len(s) : i # 1 => s[1] < s[i]
  BY <1>1, <1>3 DEF Lists
<1>5. \A m \in S : s[1] <= m
  BY <1>3, <1>4 DEF Lists
<1>6. \A i \in 1..Len(t) : i + 1 \in 1..Len(s) /\ i + 1 # 1
  BY <1>1, <1>2
<1>7. ASSUME NEW i \in 1..Len(t), NEW j \in 1..Len(t), i < j PROVE t[i] < t[j]
  <2>1. i + 1 < j + 1
    BY <1>7
  <2> QED BY <1>2, <1>6, <2>1, Zenon DEF Lists
<1>8. ASSUME NEW m PROVE m \in S \ {s[1]} <=> \E i \in 1..Len(t) : t[i] = m
  <2>1. ASSUME NEW i \in 1..Len(t), t[i] = m PROVE m \in S \ {s[1]}
    <3>1. m = s[i + 1] /\ s[1] < m
      BY <1>2, <1>4, <1>6, <2>1
    <3> QED BY <1>3, <1>6, <3>1 DEF Lists
  <2>2. ASSUME m \in S \ {s[1]} PROVE \E i \in 1..Len(t) : t[i] = m
    <3>1. PICK j \in 1..Len(s) : s[j] = m
      BY <2>2 DEF Lists
    <3>2. j # 1
      BY <2>2, <3>1
    <3>3. j - 1 \in 1..Len(t) /\ (j - 1) + 1 = j
      BY <1>1, <1>2, <3>2
    <3> QED BY <1>2, <3>1, <3>3, Zenon
  <2> QED BY <2>1, <2>2
<1>9. Lists(t, S \ {s[1]})
  BY <1>2, <1>7, <1>8 DEF Lists
<1> QED BY <1>2, <1>3, <1>5, <1>9 DEF t


----------------------------------------------------------------------------
(* Steps that leave the messages alone                                     *)

\* A message that a reader has not released is in the ring.
LEMMA UnreadHeld ==
  ASSUME Types, NEW r \in Local, NEW c \in Nat, ReaderAt(r, c), NEW m \in Nat,
         c < m, m <= Len(log)
  PROVE  Held(m)
<1>1. Len(log) \in Nat /\ MaxChunks \in Nat \ {0}
  BY BroadcastAssumption, SeqLen DEF Types
<1> QED BY <1>1 DEF ReaderAt, Held

\* The types of what the streams are made of.
LEMMA StreamsFacts ==
  ASSUME Types, StreamTypes
  PROVE  /\ Len(log) \in Nat
         /\ \A r \in Readers : Len(delivered[r]) \in Nat /\ UnderWay(r) \subseteq Nat
         /\ \A r \in Local : /\ Released(r) \in Nat
                             /\ rd[r].pc = "recv" => Released(r) = Len(delivered[r]) + 1
                             /\ rd[r].pc # "recv" => Released(r) = Len(delivered[r])
<1>1. Len(log) \in Nat
  BY SeqLen DEF Types
<1>2. ASSUME NEW r \in Readers PROVE Len(delivered[r]) \in Nat
  <2>1. delivered[r] \in Seq(Nat)
    BY DEF StreamTypes
  <2> QED BY <2>1, SeqLen
<1>3. ASSUME NEW r \in Local
      PROVE  /\ Released(r) \in Nat
             /\ rd[r].pc = "recv" => Released(r) = Len(delivered[r]) + 1
             /\ rd[r].pc # "recv" => Released(r) = Len(delivered[r])
  <2>1. Len(delivered[r]) \in Nat
    BY <1>2 DEF Readers
  <2>2. CASE rd[r].pc = "recv"
    BY <2>1, <2>2 DEF Released
  <2>3. CASE rd[r].pc # "recv"
    BY <2>1, <2>3 DEF Released
  <2> QED BY <2>2, <2>3
<1> QED BY <1>1, <1>2, <1>3 DEF UnderWay

\* A step that writes no chunk keeps what the chunks hold.
LEMMA DataSteady ==
  ASSUME Types, DataInv, UNCHANGED <<data, log>>,
         \/ wr' = wr
         \/ /\ ~Writing /\ ~Writing'
            /\ wr'.pc = "send" => wr.pc = "send"
            /\ wr'.pc \in {"notify", "remote"} => wr.pc \in {"send", "notify", "remote"}
            /\ wr'.pc \in {"check", "full"} => Len(log) < MaxMessages
  PROVE  DataInv'
<1>1. CASE wr' = wr
  <2>1. \A m : Held(m)' <=> Held(m)
    BY <1>1 DEF Held, Writing
  <2> QED BY <1>1, <2>1 DEF DataInv, Message
<1>2. CASE /\ ~Writing /\ ~Writing'
           /\ wr'.pc = "send" => wr.pc = "send"
           /\ wr'.pc \in {"notify", "remote"} => wr.pc \in {"send", "notify", "remote"}
           /\ wr'.pc \in {"check", "full"} => Len(log) < MaxMessages
  <2>1. \A m : Held(m)' <=> Held(m)
    BY <1>2 DEF Held
  <2>2. wr'.pc \notin {"write", "flags", "mark"}
    BY <1>2 DEF Writing
  <2> QED BY <1>2, <2>1, <2>2 DEF DataInv
<1> QED BY <1>1, <1>2

\* What every step but the release of a chunk has to keep, and how it looks in the
\* log of messages.
Kept ==
  /\ DataInv'
  /\ StreamTypes'
  /\ \A r \in Readers : Stream(r)'
  /\ \A r \in Local : Released(r)' = Released(r)
  /\ [Log!Next]_<<log, delivered>>

\* A step that leaves the streams alone.
LEMMA QuietStep ==
  ASSUME Streams, DataInv', UNCHANGED <<log, delivered, sockets>>,
         \A r \in Local : rd'[r].pc = "recv" <=> rd[r].pc = "recv",
         wr'.pc = "send" <=> wr.pc = "send",
         Remote # {} => SentRemote' = SentRemote,
         \A r \in Local, m \in Nat :
           Released(r) < m /\ m <= Len(log) => data'[Slot(m - 1)] = data[Slot(m - 1)]
  PROVE  Kept
<1>1. \A r \in Local : Released(r)' = Released(r)
  BY Zenon DEF Released
<1>2. ASSUME NEW r \in Local PROVE UnderWay(r)' = UnderWay(r)
  BY <1>1 DEF UnderWay
<1>3. ASSUME NEW r \in Readers, r \notin Local PROVE UnderWay(r)' = UnderWay(r)
  <2>1. SentRemote' = SentRemote
    BY <1>3 DEF Readers
  <2> QED BY <1>3, <2>1 DEF UnderWay
<1>4. ASSUME NEW r \in Readers PROVE Stream(r)'
  <2>1. UnderWay(r)' = UnderWay(r)
    BY <1>2, <1>3
  <2>2. Lists(sockets[r], UnderWay(r))'
    BY <2>1, SMTT(20) DEF Streams, Stream, Lists
  <2>3. r \notin Local => SentRemote' = SentRemote
    BY DEF Readers
  <2> QED BY <2>2, <2>3 DEF Streams, Stream
<1>5. StreamTypes'
  BY DEF Streams, StreamTypes
<1> QED BY <1>1, <1>4, <1>5 DEF Kept

\* The same of a step that changes no chunk either.
LEMMA IdleStep ==
  ASSUME Streams, UNCHANGED <<log, delivered, sockets, data>>,
         \A r \in Local : rd'[r].pc = "recv" <=> rd[r].pc = "recv",
         \/ wr' = wr
         \/ /\ ~Writing /\ ~Writing' /\ wr'.pc # "send" /\ wr.pc # "send"
            /\ wr'.pc \in {"notify", "remote"} => wr.pc \in {"notify", "remote"}
            /\ wr.pc \in {"notify", "remote"} /\ Remote # {} => wr'.pc \in {"notify", "remote"}
            /\ wr'.pc \in {"check", "full"} => Len(log) < MaxMessages
  PROVE  Kept
<1>1. DataInv'
  BY DataSteady DEF Streams
<1>2. (wr'.pc = "send" <=> wr.pc = "send") /\ (Remote # {} => SentRemote' = SentRemote)
  BY DEF SentRemote
<1> QED BY <1>1, <1>2, QuietStep

----------------------------------------------------------------------------
(* The steps of the messages                                               *)

\* The chunk that the writer takes holds nothing that is still to be read.
LEMMA AcquireWriteStream ==
  ASSUME CountTells, Streams, AcquireWrite
  PROVE  Kept
<1>1. Types /\ WriterAt /\ DataInv /\ StreamTypes /\ \A r \in Local : ReaderAt(r, Released(r))
  BY DEF Streams
<1>2. /\ ~Writing /\ Writing' /\ wr.pc = "check" /\ wr'.pc = "write" /\ wr'.idx = wr.idx
      /\ data' = [data EXCEPT ![wr.idx] = Torn]
      /\ UNCHANGED <<rd, log, delivered, sockets>>
  BY <1>1 DEF AcquireWrite, Writing, Types
<1>3. ASSUME NEW m \in Nat, Held(m)'
      PROVE  Held(m) /\ Slot(m - 1) # wr.idx /\ data'[Slot(m - 1)] = data[Slot(m - 1)]
  <2>1. Held(m) /\ Len(log) + 1 < m + MaxChunks
    BY <1>2, <1>3 DEF Held
  <2>2. Slot(m - 1) # wr.idx /\ Slot(m - 1) \in Chunks
    BY <1>1, <2>1, HeldElsewhere, SlotType DEF Held
  <2> QED BY <1>1, <1>2, <2>1, <2>2 DEF DataInv
<1>4. DataInv'
  <2>1. data' \in [Chunks -> {Torn} \cup Content]
    BY <1>1, <1>2, Zenon DEF DataInv
  <2>2. \A m \in Nat : Held(m)' => data'[Slot(m - 1)] \in Content /\ data'[Slot(m - 1)].msg = m
    BY <1>1, <1>3 DEF DataInv
  <2> QED BY <1>1, <1>2, <2>1, <2>2 DEF DataInv
<1>5. ASSUME NEW r \in Local, NEW m \in Nat, Released(r) < m, m <= Len(log)
      PROVE  data'[Slot(m - 1)] = data[Slot(m - 1)]
  <2>1. Released(r) \in Nat /\ Len(log) \in Nat /\ MaxChunks \in Nat \ {0}
    BY <1>1, StreamsFacts, BroadcastAssumption
  <2>2. PICK c \in Nat : c = Released(r)
    BY <2>1
  <2>3. ReaderAt(r, c)'
    BY <1>1, <2>2, AcquireWriteRing
  <2>4. Len(log) < c + MaxChunks
    BY <1>2, <2>3 DEF ReaderAt
  <2>5. Held(m)'
    BY <1>2, <1>5, <2>1, <2>2, <2>4 DEF Held
  <2> QED BY <1>3, <2>5
<1>6. SentRemote' = SentRemote
  BY <1>2 DEF SentRemote
<1> QED BY <1>2, <1>4, <1>5, <1>6, QuietStep

\* The message, or the mark of its overflow, is put into the chunk.
LEMMA WriteEndStream == Streams /\ WriteEnd => Kept
<1> SUFFICES ASSUME Streams, WriteEnd PROVE Kept
  OBVIOUS
<1>1. Types /\ WriterAt /\ DataInv /\ StreamTypes /\ \A r \in Local : ReaderAt(r, Released(r))
  BY DEF Streams
<1>2. /\ Writing /\ Writing' /\ wr.pc = "write" /\ wr'.pc = "flags" /\ wr'.idx = wr.idx
      /\ wr'.overflow = wr.overflow /\ wr.overflow \in BOOLEAN /\ wr.idx \in Chunks
      /\ data' = [data EXCEPT ![wr.idx] = [msg |-> Message, overflow |-> wr.overflow]]
      /\ UNCHANGED <<rd, log, delivered, sockets>>
  BY <1>1 DEF WriteEnd, Writing, Types
<1>3. ASSUME NEW m \in Nat, Held(m)
      PROVE  data'[Slot(m - 1)] = data[Slot(m - 1)]
  <2>1. Slot(m - 1) # wr.idx /\ Slot(m - 1) \in Chunks
    BY <1>1, <1>2, <1>3, HeldElsewhere, SlotType DEF Held
  <2> QED BY <1>1, <1>2, <2>1 DEF DataInv
<1>4. DataInv'
  <2>0. Message \in Nat /\ Message' = Message
    BY <1>1, <1>2, SeqLen DEF Message, Types
  <2>1. data' \in [Chunks -> {Torn} \cup Content]
    BY <1>1, <1>2, <2>0 DEF DataInv, Content
  <2>2. \A m \in Nat : Held(m)' <=> Held(m)
    BY <1>2 DEF Held
  <2>3. \A m \in Nat : Held(m)' => data'[Slot(m - 1)] \in Content /\ data'[Slot(m - 1)].msg = m
    BY <1>1, <1>3, <2>2 DEF DataInv
  <2>4. data'[wr'.idx] = [msg |-> Message', overflow |-> wr'.overflow]
    BY <1>1, <1>2, <2>0 DEF DataInv
  <2>5. Len(log') < MaxMessages
    BY <1>1, <1>2 DEF DataInv
  <2> QED BY <1>2, <2>1, <2>3, <2>4, <2>5 DEF DataInv
<1>5. ASSUME NEW r \in Local, NEW m \in Nat, Released(r) < m, m <= Len(log)
      PROVE  data'[Slot(m - 1)] = data[Slot(m - 1)]
  BY <1>1, <1>3, <1>5, StreamsFacts, UnreadHeld
<1>6. SentRemote' = SentRemote
  BY <1>2 DEF SentRemote
<1> QED BY <1>2, <1>4, <1>5, <1>6, QuietStep

\* A read flag is no part of a stream.
LEMMA ResetReadFlagStream == Streams /\ ResetReadFlag => Kept
<1> SUFFICES ASSUME Streams, ResetReadFlag PROVE Kept
  OBVIOUS
<1>1. Types /\ DataInv
  BY DEF Streams
<1>2. /\ Writing /\ wr.pc = "flags" /\ wr'.pc \in {"flags", "mark"} /\ wr'.idx = wr.idx
      /\ wr'.overflow = wr.overflow
      /\ UNCHANGED <<data, rd, log, delivered, sockets>>
  BY <1>1 DEF ResetReadFlag, Writing, Types
<1>3. Writing'
  BY <1>2 DEF Writing
<1>4. \A m \in Nat : Held(m)' <=> Held(m)
  BY <1>2, <1>3 DEF Held
<1>5. DataInv'
  BY <1>1, <1>2, <1>4 DEF DataInv, Message
<1>6. SentRemote' = SentRemote
  BY <1>2 DEF SentRemote
<1> QED BY <1>2, <1>5, <1>6, QuietStep

\* A message becomes readable: the log gets longer.
LEMMA MarkWrittenStream == Streams /\ MarkWritten => Kept
<1> SUFFICES ASSUME Streams, MarkWritten PROVE Kept
  OBVIOUS
<1>1. Types /\ WriterAt /\ DataInv /\ StreamTypes /\ \A r \in Local : ReaderAt(r, Released(r))
  BY DEF Streams
<1>2. /\ Len(log) \in Nat /\ MaxChunks \in Nat \ {0} /\ MaxMessages \in Nat
      /\ \A r \in Readers : Len(delivered[r]) \in Nat
      /\ \A r \in Local : Released(r) \in Nat /\ Len(delivered[r]) <= Released(r)
  <2>1. \A r \in Local : r \in Readers
    BY DEF Readers
  <2> QED BY <1>1, <2>1, StreamsFacts, BroadcastAssumption
<1>3. /\ Writing /\ wr.pc = "mark" /\ ~Writing' /\ wr.idx = Slot(Len(log))
      /\ wr'.pc = IF wr.overflow THEN "send" ELSE "notify"
      /\ log' = Append(log, Len(log) + 1)
      /\ UNCHANGED <<data, rd, delivered, sockets>>
  BY <1>1 DEF MarkWritten, Writing, Types, WriterAt, Message
<1>4. Len(log') = Len(log) + 1 /\ log' = Upto(Len(log'))
  <2>1. log' = Upto(Len(log) + 1)
    BY <1>1, <1>2, <1>3, AppendUpto, Zenon DEF StreamTypes
  <2> QED BY <1>2, <2>1, UptoLen
<1>5. data[Slot(Len(log))] = [msg |-> Len(log) + 1, overflow |-> wr.overflow] /\ wr.overflow \in BOOLEAN
  BY <1>1, <1>3 DEF DataInv, Message, Types
<1>6. DataInv'
  <2>1. ASSUME NEW m \in Nat, Held(m)'
        PROVE  data[Slot(m - 1)] \in Content /\ data[Slot(m - 1)].msg = m
    <3>1. m \in 1..Len(log) + 1 /\ Len(log) + 1 < m + MaxChunks
      BY <1>4, <2>1 DEF Held
    <3>2. CASE m = Len(log) + 1
      <4>1. m - 1 = Len(log) /\ Len(log) + 1 \in Nat
        BY <1>2, <3>2
      <4> QED BY <1>5, <3>2, <4>1 DEF Content
    <3>3. CASE m # Len(log) + 1
      <4>1. Held(m)
        BY <1>2, <3>1, <3>3 DEF Held
      <4> QED BY <1>1, <4>1 DEF DataInv
    <3> QED BY <3>2, <3>3
  <2>2. Len(log') - 1 = Len(log) /\ Len(log') > 0
    BY <1>2, <1>4
  <2>3. wr'.pc = "send" => data[Slot(Len(log))].overflow
    BY <1>3, <1>5
  <2>4. wr'.pc \in {"send", "notify"}
    BY <1>3
  <2> QED BY <1>1, <1>3, <2>1, <2>2, <2>3, <2>4 DEF DataInv
<1>7. \A r \in Local : Released(r)' = Released(r)
  BY <1>3 DEF Released
<1>8. SentRemote' = SentRemote
  BY <1>2, <1>3, <1>4 DEF SentRemote
<1>9. ASSUME NEW r \in Readers PROVE UnderWay(r)' = UnderWay(r)
  <2>1. CASE r \in Local
    <3>1. Len(delivered[r]) <= Released(r) /\ Released(r) <= Len(log)
      BY <1>1, <1>2, <2>1 DEF ReaderAt
    <3>2. ASSUME NEW m \in Nat PROVE m \in UnderWay(r)' <=> m \in UnderWay(r)
      <4>1. CASE m <= Len(log)
        BY <1>2, <1>3, <1>4, <1>7, <2>1, <4>1 DEF UnderWay
      <4>2. CASE m = Len(log) + 1
        <5>1. m - 1 = Len(log) /\ Released(r) < m /\ ~(m <= Len(log))
          BY <1>2, <2>1, <3>1, <4>2
        <5>2. wr'.pc = "send" \/ ~data[Slot(m - 1)].overflow
          BY <1>3, <1>5, <5>1
        <5> QED BY <1>3, <1>4, <1>7, <2>1, <4>2, <5>1, <5>2 DEF UnderWay
      <4>3. CASE m > Len(log) + 1
        BY <1>2, <1>4, <2>1, <4>3 DEF UnderWay
      <4> QED BY <1>2, <4>1, <4>2, <4>3
    <3> QED BY <3>2 DEF UnderWay
  <2>2. CASE r \notin Local
    BY <1>3, <1>8, <2>2 DEF UnderWay
  <2> QED BY <2>1, <2>2
<1>10. ASSUME NEW r \in Readers PROVE Stream(r)'
  <2>1. Lists(sockets[r], UnderWay(r))'
    BY <1>3, <1>9 DEF Streams, Stream, Lists
  <2>2. r \in Local => Len(delivered[r]) < Len(log')
    BY <1>1, <1>2, <1>4 DEF ReaderAt
  <2> QED BY <1>3, <1>8, <2>1, <2>2, SMTT(20) DEF Streams, Stream
<1>11. StreamTypes'
  BY <1>1, <1>3, <1>4 DEF StreamTypes
<1>12. Log!Next
  <2>1. ASSUME NEW r \in Local PROVE Len(log) - Len(delivered[r]) <= MaxChunks
    <3>1. Len(log) < Released(r) + MaxChunks
      BY <1>1, <1>3 DEF ReaderAt
    <3>2. r \in Readers /\ Released(r) <= Len(delivered[r]) + 1
      BY <1>1, StreamsFacts DEF Readers
    <3> QED BY <1>2, <3>1, <3>2
  <2>2. Len(log) + 1 \in 1..MaxMessages
    BY <1>1, <1>2, <1>3 DEF DataInv
  <2>3. Log!Write(Len(log) + 1)
    BY <1>3, <2>1 DEF Log!Write
  <2> QED BY <2>2, <2>3 DEF Log!Next
<1> QED BY <1>6, <1>7, <1>10, <1>11, <1>12 DEF Kept

\* The overflow follows on the sockets of the local readers.
LEMMA SendOverflowStream == Streams /\ SendOverflow => Kept
<1> SUFFICES ASSUME Streams, SendOverflow PROVE Kept
  OBVIOUS
<1>1. Types /\ DataInv /\ StreamTypes
  BY DEF Streams
<1>2. /\ Len(log) \in Nat
      /\ \A r \in Readers : Len(delivered[r]) \in Nat
      /\ \A r \in Local : r \in Readers
  BY <1>1, StreamsFacts DEF Readers
<1>3. /\ ~Writing /\ ~Writing' /\ wr.pc = "send" /\ wr'.pc = "notify"
      /\ sockets' = [r \in Readers |-> IF r \in Local THEN Append(sockets[r], Len(log)) ELSE sockets[r]]
      /\ UNCHANGED <<data, rd, log, delivered>>
  BY <1>1 DEF SendOverflow, SentTo, shm, Writing, Types, StreamTypes
<1>4. DataInv'
  BY <1>1, <1>3, DataSteady
<1>5. \A r \in Local : Released(r)' = Released(r)
  BY <1>3 DEF Released
<1>6. SentRemote' = SentRemote
  BY <1>3 DEF SentRemote
<1>7. ASSUME NEW r \in Local PROVE Stream(r)'
  <2>1. /\ Lists(sockets[r], UnderWay(r)) /\ Len(delivered[r]) < Len(log)
        /\ delivered[r] = Upto(Len(delivered[r]))
    BY <1>2, <1>3 DEF Streams, Stream
  <2>2. \A m \in UnderWay(r) : m < Len(log)
    BY <1>2, <1>3 DEF UnderWay
  <2>3. Lists(Append(sockets[r], Len(log)), UnderWay(r) \cup {Len(log)})
    BY <1>2, <2>1, <2>2, ListsAppend
  <2>4. Released(r) < Len(log) => data[Slot(Len(log) - 1)].overflow
    BY <1>1, <1>3 DEF DataInv
  <2>5. UnderWay(r)' = UnderWay(r) \cup {Len(log)}
    BY <1>2, <1>3, <1>5, <2>1, <2>4, SMTT(20) DEF UnderWay
  <2>6. Lists(sockets[r], UnderWay(r))'
    BY <1>2, <1>3, <2>3, <2>5, Zenon DEF Lists
  <2> QED BY <1>3, <2>1, <2>6, SMTT(20) DEF Stream
<1>8. ASSUME NEW r \in Readers, r \notin Local PROVE Stream(r)'
  <2>1. UnderWay(r)' = UnderWay(r)
    BY <1>3, <1>6, <1>8 DEF UnderWay
  <2>2. Lists(sockets[r], UnderWay(r))'
    BY <1>3, <1>8, <2>1 DEF Lists, Streams, Stream
  <2> QED BY <1>3, <1>6, <1>8, <2>2, Zenon DEF Streams, Stream
<1>9. StreamTypes'
  <2>1. ASSUME NEW r \in Readers PROVE Append(sockets[r], Len(log)) \in Seq(Nat) /\ sockets[r] \in Seq(Nat)
    BY <1>1, <1>2, SeqAppend DEF StreamTypes
  <2> QED BY <1>1, <1>3, <2>1 DEF StreamTypes
<1> QED BY <1>3, <1>4, <1>5, <1>7, <1>8, <1>9 DEF Kept

\* Every message is sent to the remote readers.
LEMMA SendRemoteStream == Streams /\ SendRemote => Kept
<1> SUFFICES ASSUME Streams, SendRemote PROVE Kept
  OBVIOUS
<1>1. Types /\ DataInv /\ StreamTypes
  BY DEF Streams
<1>2. /\ Len(log) \in Nat
      /\ \A r \in Readers : Len(delivered[r]) \in Nat
      /\ \A r \in Local : r \in Readers /\ r \notin Remote
      /\ \A r \in Readers : r \notin Local => r \in Remote
  BY <1>1, StreamsFacts, BroadcastAssumption DEF Readers, Local
<1>3. /\ ~Writing /\ ~Writing' /\ wr.pc = "remote" /\ wr'.pc = "idle"
      /\ sockets' = [r \in Readers |-> IF r \in Remote THEN Append(sockets[r], Len(log)) ELSE sockets[r]]
      /\ UNCHANGED <<data, rd, log, delivered>>
  BY <1>1 DEF SendRemote, SentTo, shm, Writing, Types, StreamTypes
<1>4. DataInv'
  BY <1>1, <1>3, DataSteady
<1>5. \A r \in Local : Released(r)' = Released(r)
  BY <1>3 DEF Released
<1>6. SentRemote = Len(log) - 1 /\ SentRemote' = Len(log) /\ Len(log) > 0
  BY <1>1, <1>3 DEF SentRemote, DataInv
<1>7. ASSUME NEW r \in Readers, r \notin Local PROVE Stream(r)'
  <2>1. /\ Lists(sockets[r], UnderWay(r)) /\ Len(delivered[r]) < Len(log)
        /\ delivered[r] = Upto(Len(delivered[r]))
    BY <1>2, <1>6, <1>7 DEF Streams, Stream
  <2>2. \A m \in UnderWay(r) : m < Len(log)
    BY <1>2, <1>6, <1>7 DEF UnderWay
  <2>3. Lists(Append(sockets[r], Len(log)), UnderWay(r) \cup {Len(log)})
    BY <1>2, <2>1, <2>2, ListsAppend
  <2>4. UnderWay(r)' = UnderWay(r) \cup {Len(log)}
    BY <1>2, <1>3, <1>6, <1>7, <2>1 DEF UnderWay
  <2>5. Lists(sockets[r], UnderWay(r))'
    BY <1>2, <1>3, <1>7, <2>3, <2>4, Zenon DEF Lists
  <2> QED BY <1>2, <1>3, <1>6, <1>7, <2>1, <2>5 DEF Stream
<1>8. ASSUME NEW r \in Local PROVE Stream(r)'
  <2>1. UnderWay(r)' = UnderWay(r)
    BY <1>3, <1>5, <1>8 DEF UnderWay
  <2>2. Lists(sockets[r], UnderWay(r))'
    BY <1>2, <1>3, <2>1 DEF Lists, Streams, Stream
  <2> QED BY <1>2, <1>3, <2>2 DEF Streams, Stream
<1>9. StreamTypes'
  <2>1. ASSUME NEW r \in Readers PROVE Append(sockets[r], Len(log)) \in Seq(Nat) /\ sockets[r] \in Seq(Nat)
    BY <1>1, <1>2, SeqAppend DEF StreamTypes
  <2> QED BY <1>1, <1>3, <2>1 DEF StreamTypes
<1> QED BY <1>3, <1>4, <1>5, <1>7, <1>8, <1>9 DEF Kept

\* A reader takes the next message of the log.
LEMMA NextTaken ==
  ASSUME Types, StreamTypes, NEW q \in Readers, delivered[q] = Upto(Len(delivered[q])),
         Len(delivered[q]) < Len(log), log' = log,
         delivered' = [delivered EXCEPT ![q] = Append(@, Len(delivered[q]) + 1)]
  PROVE  /\ delivered'[q] = Upto(Len(delivered'[q])) /\ Len(delivered'[q]) = Len(delivered[q]) + 1
         /\ delivered' \in [Readers -> Seq(Nat)]
         /\ \A r \in Readers \ {q} : delivered'[r] = delivered[r]
         /\ Log!Next
<1>1. delivered[q] \in Seq(Nat) /\ Len(log) \in Nat /\ Len(delivered[q]) \in Nat
  BY StreamsFacts DEF StreamTypes
<1>2. delivered'[q] = Append(delivered[q], Len(delivered[q]) + 1)
  BY DEF StreamTypes
<1>3. delivered'[q] = Upto(Len(delivered[q]) + 1)
  BY <1>1, <1>2, AppendUpto, Zenon
<1>4. Len(delivered'[q]) = Len(delivered[q]) + 1 /\ delivered'[q] \in Seq(Nat)
  BY <1>1, <1>3, UptoLen
<1>5. delivered' \in [Readers -> Seq(Nat)]
  BY <1>2, <1>4 DEF StreamTypes
<1>6. log[Len(delivered[q]) + 1] = Len(delivered[q]) + 1
  BY <1>1 DEF StreamTypes, Upto
<1>7. Log!Deliver(q)
  BY <1>6 DEF Log!Deliver, StreamTypes
<1>8. Log!Next
  BY <1>7 DEF Log!Next, Readers
<1> QED BY <1>3, <1>4, <1>5, <1>8 DEF StreamTypes

\* The stream of a reader that takes no part in a step.
LEMMA OtherStream ==
  ASSUME NEW q, NEW r \in Readers \ {q}, Stream(r), UNCHANGED <<data, wr, log>>,
         delivered'[r] = delivered[r], sockets'[r] = sockets[r],
         r \in Local => (rd'[r].pc = "recv" <=> rd[r].pc = "recv")
  PROVE  Stream(r)'
<1>1. r \in Local => Released(r)' = Released(r)
  BY Zenon DEF Released
<1>2. SentRemote' = SentRemote
  BY DEF SentRemote
<1>3. UnderWay(r)' = UnderWay(r)
  BY <1>1, <1>2 DEF UnderWay
<1>4. Lists(sockets[r], UnderWay(r))'
  BY <1>3 DEF Lists, Stream
<1> QED BY <1>2, <1>4 DEF Stream

\* recv(): the message that the socket holds is the next one of the log.
LEMMA ReceivedNext ==
  ASSUME Types, StreamTypes, NEW q \in Readers, Stream(q), sockets[q] # <<>>,
         \/ q \notin Local
         \/ q \in Local /\ rd[q].pc = "recv" /\ Released(q) <= Len(log)
  PROVE  /\ Head(sockets[q]) = Len(delivered[q]) + 1
         /\ Len(delivered[q]) < Len(log)
         /\ q \in Local /\ wr.pc = "send" => Len(delivered[q]) + 1 < Len(log)
         /\ q \notin Local => Len(delivered[q]) + 1 <= SentRemote
         /\ Lists(Tail(sockets[q]), UnderWay(q) \ {Len(delivered[q]) + 1})
<1>1. Len(log) \in Nat /\ Len(delivered[q]) \in Nat /\ UnderWay(q) \subseteq Nat
  BY StreamsFacts
<1> DEFINE n == Len(delivered[q]) + 1
           h == Head(sockets[q])
<1>2. /\ h \in UnderWay(q) /\ h \in Nat /\ \A m \in UnderWay(q) : h <= m
      /\ Lists(Tail(sockets[q]), UnderWay(q) \ {h})
  BY ListsTail, Zenon DEF Stream
<1>3. SentRemote <= Len(log) /\ SentRemote \in Int
  BY <1>1 DEF SentRemote
<1>4. CASE q \notin Local
  <2>1. Len(delivered[q]) < h /\ h <= SentRemote
    BY <1>2, <1>4 DEF UnderWay
  <2>2. n \in UnderWay(q)
    BY <1>1, <1>2, <1>3, <1>4, <2>1 DEF UnderWay
  <2>3. h = n
    BY <1>1, <1>2, <2>1, <2>2
  <2>4. Len(delivered[q]) < Len(log) /\ n <= SentRemote
    BY <1>1, <1>3, <2>1, <2>3
  <2> QED BY <1>2, <1>4, <2>3, <2>4, Zenon
<1>5. CASE q \in Local
  <2>1. Len(delivered[q]) < h /\ h <= Len(log) /\ (wr.pc = "send" => h # Len(log))
    BY <1>2, <1>5 DEF UnderWay
  <2>2. Released(q) = n
    BY <1>5, StreamsFacts
  <2>3. n <= Len(log) /\ (wr.pc = "send" => n # Len(log))
    BY <1>1, <1>2, <1>5, <2>1, <2>2
  <2>4. n \in UnderWay(q)
    BY <1>1, <1>5, <2>2, <2>3 DEF UnderWay
  <2>5. h = n
    BY <1>1, <1>2, <2>1, <2>4
  <2>6. Len(delivered[q]) < Len(log) /\ (wr.pc = "send" => n < Len(log))
    BY <1>1, <2>3
  <2> QED BY <1>2, <1>5, <2>5, <2>6, Zenon
<1> QED BY <1>4, <1>5

\* A reader takes a message from its socket.
LEMMA ReceivedStream ==
  ASSUME Streams, NEW q \in Readers, Received(q), UNCHANGED <<data, wr, log>>,
         \A r \in Local \ {q} : rd'[r].pc = "recv" <=> rd[r].pc = "recv",
         q \in Local => rd[q].pc = "recv" /\ rd'[q].pc # "recv"
  PROVE  Kept
<1>1. Types /\ DataInv /\ StreamTypes /\ Stream(q)
  BY DEF Streams
<1>2. /\ Len(log) \in Nat
      /\ \A r \in Readers : Len(delivered[r]) \in Nat
      /\ \A r \in Local : r \in Readers
  BY <1>1, StreamsFacts DEF Readers
<1>3. q \in Local => Released(q) <= Len(log) /\ Released(q) = Len(delivered[q]) + 1
  BY <1>1, StreamsFacts, SMTT(20) DEF Streams, ReaderAt
<1>4. /\ Head(sockets[q]) = Len(delivered[q]) + 1
      /\ Len(delivered[q]) < Len(log)
      /\ q \in Local /\ wr.pc = "send" => Len(delivered[q]) + 1 < Len(log)
      /\ q \notin Local => Len(delivered[q]) + 1 <= SentRemote
      /\ Lists(Tail(sockets[q]), UnderWay(q) \ {Len(delivered[q]) + 1})
  <2>1. sockets[q] # <<>>
    BY DEF Received
  <2> QED BY <1>1, <1>3, <2>1, ReceivedNext
<1>5. /\ delivered' = [delivered EXCEPT ![q] = Append(@, Len(delivered[q]) + 1)]
      /\ sockets' = [sockets EXCEPT ![q] = Tail(@)]
  BY <1>4, Zenon DEF Received
<1>6. /\ delivered'[q] = Upto(Len(delivered'[q])) /\ Len(delivered'[q]) = Len(delivered[q]) + 1
      /\ delivered' \in [Readers -> Seq(Nat)]
      /\ \A r \in Readers \ {q} : delivered'[r] = delivered[r]
      /\ Log!Next
  <2>1. delivered[q] = Upto(Len(delivered[q]))
    BY <1>1 DEF Stream
  <2> QED BY <1>1, <1>4, <1>5, <2>1, NextTaken, Zenon
<1>7. sockets'[q] = Tail(sockets[q]) /\ \A r \in Readers \ {q} : sockets'[r] = sockets[r]
  BY <1>1, <1>5 DEF StreamTypes
<1>8. StreamTypes'
  <2>1. Tail(sockets[q]) \in Seq(Nat)
    BY <1>4 DEF Lists
  <2> QED BY <1>1, <1>5, <1>6, <2>1 DEF StreamTypes
<1>9. DataInv'
  BY <1>1, DataSteady
<1>10. ASSUME NEW r \in Local PROVE Released(r)' = Released(r)
  <2>1. CASE r # q
    BY <1>2, <1>6, <2>1, Zenon DEF Released
  <2>2. CASE r = q
    <3>1. Len(delivered'[q]) \in Nat /\ rd'[q].pc # "recv"
      BY <1>2, <1>6, <2>2
    <3>2. Released(q)' = Len(delivered'[q])
      BY <3>1 DEF Released
    <3> QED BY <1>3, <1>6, <2>2, <3>2
  <2> QED BY <2>1, <2>2
<1>11. ASSUME NEW r \in Readers PROVE Stream(r)'
  <2>1. CASE r # q
    <3>1. Stream(r) /\ delivered'[r] = delivered[r] /\ sockets'[r] = sockets[r]
      BY <1>6, <1>7, <2>1 DEF Streams
    <3>2. r \in Local => (rd'[r].pc = "recv" <=> rd[r].pc = "recv")
      BY <2>1
    <3> QED BY <2>1, <3>1, <3>2, OtherStream, Zenon
  <2>2. CASE r = q
    <3>1. SentRemote' = SentRemote
      BY DEF SentRemote
    <3>2. UnderWay(q)' = UnderWay(q) \ {Len(delivered[q]) + 1}
      <4>1. CASE q \in Local
        <5>1. Released(q)' = Len(delivered[q]) + 1 /\ Released(q) = Len(delivered[q]) + 1
          BY <1>3, <1>10, <4>1
        <5> QED BY <1>2, <1>6, <4>1, <5>1 DEF UnderWay
      <4>2. CASE q \notin Local
        BY <1>2, <1>6, <3>1, <4>2, SMTT(20) DEF UnderWay
      <4> QED BY <4>1, <4>2
    <3>3. Lists(sockets[q], UnderWay(q))'
      BY <1>4, <1>7, <3>2, Zenon DEF Lists
    <3> QED BY <1>4, <1>6, <2>2, <3>1, <3>3 DEF Stream
  <2> QED BY <2>1, <2>2
<1> QED BY <1>6, <1>8, <1>9, <1>10, <1>11 DEF Kept

\* A reader has read a chunk: it has the message, or waits for the socket.
LEMMA ReleaseReadStream ==
  ASSUME Streams, NEW q \in Local, ReleaseRead(q)
  PROVE  /\ DataInv'
         /\ StreamTypes'
         /\ \A r \in Readers : Stream(r)'
         /\ \A r \in Local \ {q} : Released(r)' = Released(r)
         /\ Released(q)' = Released(q) + 1
         /\ [Log!Next]_<<log, delivered>>
<1>1. Types /\ WriterAt /\ DataInv /\ StreamTypes /\ Stream(q) /\ ReaderAt(q, Released(q))
  BY DEF Streams, Readers
<1> DEFINE n == Len(delivered[q])
<1>2. /\ Len(log) \in Nat /\ n \in Nat /\ rd[q].pc = "reading" /\ Released(q) = n
      /\ q \in Readers /\ \A r \in Readers : Len(delivered[r]) \in Nat
  BY <1>1, StreamsFacts DEF ReleaseRead, Readers
<1>3. n < Len(log) /\ rd[q].idx = Slot(n)
  BY <1>1, <1>2 DEF ReaderAt
<1>4. data[Slot(n)] \in Content /\ data[Slot(n)].msg = n + 1 /\ data[Slot(n)] # Torn
  <2>1. Held(n + 1) /\ n + 1 \in Nat /\ n + 1 - 1 = n
    BY <1>1, <1>2, <1>3, ReaderAlone
  <2>2. data[Slot(n)] \in Content /\ data[Slot(n)].msg = n + 1
    BY <1>1, <2>1 DEF DataInv
  <2> QED BY <2>2, BroadcastAssumption DEF Content
<1>5. UNCHANGED <<data, wr, log, sockets>> /\ \A r \in Local \ {q} : rd'[r] = rd[r]
  BY <1>1 DEF ReleaseRead, Types
<1>6. DataInv'
  BY <1>1, <1>5, DataSteady
<1>7. ASSUME \A r \in Readers \ {q} : delivered'[r] = delivered[r]
      PROVE  /\ \A r \in Readers \ {q} : Stream(r)'
             /\ \A r \in Local \ {q} : Released(r)' = Released(r)
  <2>1. \A r \in Local \ {q} : Released(r)' = Released(r)
    BY <1>5, <1>7, Zenon DEF Released, Readers
  <2>2. ASSUME NEW r \in Readers \ {q} PROVE Stream(r)'
    <3>1. Stream(r) /\ (r \in Local => (rd'[r].pc = "recv" <=> rd[r].pc = "recv"))
      BY <1>5 DEF Streams
    <3>2. delivered'[r] = delivered[r] /\ sockets'[r] = sockets[r]
      BY <1>5, <1>7
    <3> QED BY <1>5, <3>1, <3>2, OtherStream, ZenonT(30)
  <2> QED BY <2>1, <2>2
<1>8. CASE data[Slot(n)].overflow
  <2>1. delivered' = delivered /\ rd'[q].pc = "recv"
    BY <1>1, <1>3, <1>4, <1>8 DEF ReleaseRead, Types
  <2>2. Released(q)' = n + 1
    BY <1>2, <2>1 DEF Released
  <2>3. UnderWay(q)' = UnderWay(q)
    <3>1. ASSUME NEW m \in Nat, n < m PROVE m \in UnderWay(q)' <=> m \in UnderWay(q)
      <4>1. CASE m = n + 1
        <5>1. m - 1 = n
          BY <1>2, <4>1
        <5> QED BY <1>2, <1>5, <1>8, <2>1, <2>2, <4>1, <5>1 DEF UnderWay
      <4>2. CASE n + 1 < m
        BY <1>2, <1>5, <2>1, <2>2, <4>2 DEF UnderWay
      <4> QED BY <1>2, <3>1, <4>1, <4>2
    <3> QED BY <1>2, <2>1, <3>1 DEF UnderWay
  <2>4. Lists(sockets[q], UnderWay(q))'
    BY <1>1, <1>5, <2>3, SMTT(20) DEF Stream, Lists
  <2>5. Stream(q)'
    BY <1>1, <1>5, <2>1, <2>4 DEF Stream
  <2>6. StreamTypes'
    BY <1>1, <1>5, <2>1 DEF StreamTypes
  <2> QED BY <1>2, <1>5, <1>6, <1>7, <2>1, <2>2, <2>5, <2>6
<1>9. CASE ~data[Slot(n)].overflow
  <2>1. /\ delivered' = [delivered EXCEPT ![q] = Append(@, Len(delivered[q]) + 1)]
        /\ rd'[q].pc = "idle"
    BY <1>1, <1>3, <1>4, <1>9, SMTT(20) DEF ReleaseRead, Types
  <2>2. /\ delivered'[q] = Upto(Len(delivered'[q])) /\ Len(delivered'[q]) = Len(delivered[q]) + 1
        /\ delivered' \in [Readers -> Seq(Nat)]
        /\ \A r \in Readers \ {q} : delivered'[r] = delivered[r]
        /\ Log!Next
    <3>1. delivered[q] = Upto(Len(delivered[q]))
      BY <1>1 DEF Stream
    <3> QED BY <1>1, <1>2, <1>3, <1>5, <2>1, <3>1, NextTaken, Zenon
  <2>3. Released(q)' = n + 1
    <3>1. Len(delivered'[q]) \in Nat
      BY <1>2, <2>2, SMTT(20)
    <3> QED BY <2>1, <2>2, <3>1 DEF Released
  <2>4. UnderWay(q)' = UnderWay(q)
    <3>1. ASSUME NEW m \in Nat, n < m PROVE m \in UnderWay(q)' <=> m \in UnderWay(q)
      <4>1. CASE m = n + 1
        <5>1. m - 1 = n
          BY <1>2, <4>1
        <5> QED BY <1>2, <1>5, <1>9, <2>2, <2>3, <4>1, <5>1, SMTT(20) DEF UnderWay
      <4>2. CASE n + 1 < m
        BY <1>2, <1>5, <2>2, <2>3, <4>2 DEF UnderWay
      <4> QED BY <1>2, <3>1, <4>1, <4>2
    <3> QED BY <1>2, <2>2, <3>1, SMTT(20) DEF UnderWay
  <2>5. Lists(sockets[q], UnderWay(q))'
    BY <1>1, <1>5, <2>4 DEF Stream, Lists
  <2>6. wr.pc = "send" => n + 1 < Len(log)
    BY <1>1, <1>2, <1>3, <1>9 DEF DataInv
  <2>7. Stream(q)'
    BY <1>5, <2>2, <2>5, <2>6 DEF Stream
  <2>8. StreamTypes'
    BY <1>1, <1>5, <2>2 DEF StreamTypes
  <2> QED BY <1>2, <1>5, <1>6, <1>7, <2>2, <2>3, <2>7, <2>8
<1> QED BY <1>8, <1>9

\* The steps that deliver nothing keep the streams and stutter in the log.
LEMMA OtherStepStream ==
  ASSUME CountTells, Streams, OtherStep, ~RecvTimeouts
  PROVE  Kept
<1>0. Types /\ DataInv
  BY SMTT(20) DEF Streams
<1>1. ASSUME NEW overflow \in BOOLEAN, Enqueue(overflow) PROVE Kept
  <2>1. /\ UNCHANGED <<log, delivered, sockets, data, rd>> /\ Len(log) < MaxMessages
        /\ ~Writing /\ ~Writing' /\ wr.pc = "idle" /\ wr'.pc = "check"
    BY <1>0, <1>1 DEF Enqueue, shm, Writing, Types
  <2> QED BY <2>1, IdleStep
<1>2. CASE RingFull
  <2>1. /\ UNCHANGED <<log, delivered, sockets, data, rd>> /\ Len(log) < MaxMessages
        /\ ~Writing /\ ~Writing' /\ wr.pc = "check" /\ wr'.pc = "full"
    BY <1>0, <1>2 DEF RingFull, shm, Writing, Types, DataInv
  <2> QED BY <2>1, IdleStep
<1>3. CASE CheckAgain
  <2>1. /\ UNCHANGED <<log, delivered, sockets, data, rd>> /\ Len(log) < MaxMessages
        /\ ~Writing /\ ~Writing' /\ wr.pc = "full" /\ wr'.pc \in {"check", "idle"}
    BY <1>0, <1>3 DEF CheckAgain, shm, Writing, Types, DataInv
  <2> QED BY <2>1, IdleStep
<1>4. CASE NotifyReaders
  <2>1. PICK reached \in SUBSET {r \in Local : rd[r].pc = "parked"} :
          rd' = [r \in Local |-> IF r \in reached THEN [rd[r] EXCEPT !.pc = AfterWait(r)] ELSE rd[r]]
    BY <1>4, Zenon DEF NotifyReaders
  <2>2. \A r \in Local : rd'[r].pc = "recv" <=> rd[r].pc = "recv"
    BY <1>0, <2>1 DEF AfterWait, Types
  <2>3. /\ UNCHANGED <<log, delivered, sockets, data>>
        /\ ~Writing /\ ~Writing' /\ wr.pc = "notify" /\ wr'.pc \in {"remote", "idle"}
        /\ Remote # {} => wr'.pc = "remote"
    BY <1>0, <1>4 DEF NotifyReaders, shm, Writing, Types
  <2> QED BY <2>2, <2>3, IdleStep
<1>5. ASSUME NEW q \in Local, NEW pc \in {"idle", "check1", "check2", "reading", "wait", "parked", "cancelled"},
             rd[q].pc # "recv", Goes(q, pc), UNCHANGED <<log, delivered, sockets, data, wr>>
      PROVE  Kept
  <2>1. \A r \in Local : rd'[r].pc = "recv" <=> rd[r].pc = "recv"
    BY <1>0, <1>5 DEF Goes, Types
  <2> QED BY <1>5, <2>1, IdleStep
<1>6. ASSUME NEW q \in Local,
             Dequeue(q) \/ Check(q) \/ ReadTimeout(q) \/ Spin(q) \/ Park(q) \/ Wake(q)
      PROVE  Kept
  <2>1. UNCHANGED <<log, delivered, sockets, data, wr>> /\ rd[q].pc # "recv"
    BY <1>6, SMTT(20) DEF Dequeue, Check, ReadTimeout, Spin, Park, Wake, shm
  <2>2. \E pc \in {"idle", "check1", "check2", "reading", "wait", "parked", "cancelled"} : Goes(q, pc)
    <3>1. AfterWait(q) \in {"cancelled", "check1"}
      BY SMTT(20) DEF AfterWait
    <3>2. CASE Check(q)
      <4>1. CASE rd[q].pc = "check1"
        BY <3>2, <4>1, Zenon DEF Check
      <4>2. CASE rd[q].pc = "check2"
        BY <3>2, <4>2, Zenon DEF Check
      <4> QED BY <3>2, <4>1, <4>2, Zenon DEF Check
    <3> QED BY <1>6, <3>1, <3>2, Zenon DEF Dequeue, ReadTimeout, Spin, Park, Wake
  <2> QED BY <1>5, <2>1, <2>2
<1>7. ASSUME NEW q \in Local, RecvOverflow(q) PROVE Kept
  <2>1. /\ Received(q) /\ UNCHANGED <<data, wr, log>>
        /\ rd[q].pc = "recv" /\ Goes(q, "idle") /\ q \in Readers
    BY <1>7 DEF RecvOverflow, shm, Readers
  <2>2. rd'[q].pc = "idle" /\ \A r \in Local \ {q} : rd'[r].pc = "recv" <=> rd[r].pc = "recv"
    BY <1>0, <2>1 DEF Goes, Types
  <2> QED BY <2>1, <2>2, ReceivedStream
<1>8. ASSUME NEW q \in Local, Shutdown(q) PROVE Kept
  <2>1. UNCHANGED <<log, delivered, sockets, data, wr, rd>>
    BY <1>8 DEF Shutdown, shm
  <2> QED BY <2>1, IdleStep
<1>9. ASSUME NEW q \in Remote, DequeueRemote(q) PROVE Kept
  <2>1. Received(q) /\ UNCHANGED <<data, wr, log, rd>> /\ q \in Readers /\ q \notin Local
    BY <1>9, BroadcastAssumption DEF DequeueRemote, shm, Readers, Local
  <2> QED BY <2>1, ReceivedStream
<1>10. CASE UNCHANGED vars
  <2>1. UNCHANGED <<log, delivered, sockets, data, wr, rd>>
    BY <1>10 DEF vars, shm
  <2> QED BY <2>1, IdleStep
<1>11. CASE AcquireWrite \/ WriteEnd \/ ResetReadFlag \/ MarkWritten \/ SendOverflow \/ SendRemote
  BY <1>11, AcquireWriteStream, WriteEndStream, ResetReadFlagStream, MarkWrittenStream,
     SendOverflowStream, SendRemoteStream
<1> QED BY <1>1, <1>2, <1>3, <1>4, <1>6, <1>7, <1>8, <1>9, <1>10, <1>11, Zenon
        DEF OtherStep, WriterStep

\* Nothing is sent or delivered yet.
LEMMA InitStreams == Init => Streams
<1> SUFFICES ASSUME Init PROVE Streams
  OBVIOUS
<1>1. Types /\ WriterAt /\ \A r \in Local : ReaderAt(r, 0)
  BY InitRing DEF Ring
<1>2. /\ wr.pc = "idle" /\ log = <<>> /\ Len(log) = 0
      /\ \A r \in Readers : delivered[r] = <<>> /\ sockets[r] = <<>>
      /\ \A r \in Local : rd[r].pc = "idle" /\ r \in Readers
  BY DEF Init, Readers
<1>3. \A m : ~Held(m)
  BY <1>2 DEF Held
<1>4. DataInv
  BY <1>2, <1>3 DEF DataInv, Init
<1>5. Upto(0) = <<>>
  <2>1. Upto(0) \in Seq(Nat) /\ Len(Upto(0)) = 0
    BY UptoLen
  <2> QED BY <2>1, SeqEmpty
<1>6. StreamTypes
  BY <1>2, <1>5, SMTT(20) DEF StreamTypes, Init, Readers
<1>7. \A r \in Local : Released(r) = 0
  BY <1>2, <1>6, <1>1, StreamsFacts
<1>8. ASSUME NEW r \in Readers PROVE Stream(r)
  <2>1. SentRemote = 0 /\ Len(delivered[r]) = 0
    BY <1>2 DEF SentRemote
  <2>2. UnderWay(r) = {}
    BY <1>2, <2>1 DEF UnderWay
  <2>3. sockets[r] \in Seq(Nat) /\ Len(sockets[r]) = 0
    BY <1>2, SeqEmpty, Zenon
  <2>4. Lists(sockets[r], UnderWay(r))
    BY <2>2, <2>3 DEF Lists
  <2> QED BY <1>2, <1>5, <2>1, <2>4 DEF Stream
<1> QED BY <1>1, <1>4, <1>6, <1>7, <1>8 DEF Streams

\* Every step keeps the streams and is a step of the log or none.
LEMMA NextStreams ==
  ASSUME CountTells, ~RecvTimeouts, Streams, [Next]_vars
  PROVE  Streams' /\ [Log!Next]_<<log, delivered>>
<1>1. /\ Types /\ WriterAt /\ Types' /\ StreamTypes
      /\ \A r \in Local : ReaderAt(r, Released(r))
  BY TypesStep DEF Streams
<1>2. \A r \in Local : Released(r) \in Nat
  BY <1>1, StreamsFacts
<1>3. CASE Releasing
  <2>1. PICK q \in Local : ReleaseRead(q)
    BY <1>3 DEF Releasing
  <2>2. /\ WriterAt'
        /\ \A r \in Local \ {q}, c \in Nat : ReaderAt(r, c) => ReaderAt(r, c)'
        /\ \A c \in Nat : ReaderAt(q, c) => ReaderAt(q, c + 1)'
    BY <1>1, <2>1, ReleaseReadRing
  <2>3. /\ DataInv'
        /\ StreamTypes'
        /\ \A r \in Readers : Stream(r)'
        /\ \A r \in Local \ {q} : Released(r)' = Released(r)
        /\ Released(q)' = Released(q) + 1
        /\ [Log!Next]_<<log, delivered>>
    BY <2>1, ReleaseReadStream
  <2>4. ASSUME NEW r \in Local PROVE ReaderAt(r, Released(r))'
    <3>1. PICK c \in Nat : c = Released(r)
      BY <1>2
    <3>2. ReaderAt(r, c)
      BY <1>1, <3>1
    <3>3. CASE r = q
      <4>1. ReaderAt(q, c + 1)' /\ Released(q)' = c + 1
        BY <2>2, <2>3, <3>1, <3>2, <3>3
      <4> QED BY <3>3, <4>1 DEF ReaderAt
    <3>4. CASE r # q
      <4>1. ReaderAt(r, c)' /\ Released(r)' = c
        BY <2>2, <2>3, <3>1, <3>2, <3>4
      <4> QED BY <4>1 DEF ReaderAt
    <3> QED BY <3>3, <3>4
  <2> QED BY <1>1, <2>2, <2>3, <2>4 DEF Streams
<1>4. CASE OtherStep
  <2>1. /\ WriterAt'
        /\ \A r \in Local, c \in Nat : ReaderAt(r, c) => ReaderAt(r, c)'
    BY <1>1, <1>4, OtherStepRing
  <2>2. Kept
    BY <1>4, OtherStepStream
  <2>3. ASSUME NEW r \in Local PROVE ReaderAt(r, Released(r))'
    <3>1. PICK c \in Nat : c = Released(r)
      BY <1>2
    <3>2. ReaderAt(r, c)' /\ Released(r)' = c
      BY <1>1, <2>1, <2>2, <3>1 DEF Kept
    <3> QED BY <3>2 DEF ReaderAt
  <2> QED BY <1>1, <2>1, <2>2, <2>3 DEF Streams, Kept
<1> QED BY <1>3, <1>4, TwoKindsOfSteps

----------------------------------------------------------------------------
(* Counting the readers                                                    *)

\* What Cardinality stands for, to use the library's facts about it below.
LEMMA CardinalityIs ==
  ASSUME NEW S
  PROVE  Cardinality(S) = LET CS[T \in SUBSET S] ==
                                IF T = {} THEN 0 ELSE 1 + CS[T \ {CHOOSE x : x \in T}]
                          IN  CS[S]
  BY DEF Cardinality

LOCAL INSTANCE FiniteSetTheorems

\* The sum of the read flags is the number of readers when all are set.
LEMMA CountIsTelling == CountTells
<1>1. IsFiniteSet(Local) /\ Cardinality(Local) = NumLocal
  BY BroadcastAssumption, FS_Interval DEF Local
<1>2. \A rs \in SUBSET Local : Cardinality(rs) = NumLocal => rs = Local
  BY <1>1, FS_Subset
<1> QED BY <1>2, CardinalityIs DEF CountTells, Cardinality

----------------------------------------------------------------------------
(* The theorems                                                            *)

\* The writer of MessageQueue never touches a chunk that a reader is reading, for
\* any number of readers and chunks, with or without timeouts: two loads of flags,
\* in their order, are enough for a reader, and one look at each flag for the writer.
THEOREM ReadersStayUndisturbed == Spec => []ReadersUndisturbed
<1>1. Init => Ring
  BY InitRing
<1>2. Ring /\ [Next]_vars => Ring'
  BY CountIsTelling, NextRing
<1>3. Ring => ReadersUndisturbed
  BY RingUndisturbed
<1> QED BY <1>1, <1>2, <1>3, PTL DEF Spec

\* MessageQueue implements a log of messages: for any number of local and remote
\* readers, of chunks and of messages, every reader takes every message once and in
\* order, and the writer is held back before a local reader falls more than the
\* ring behind. It is proved of readers that do not give up a recv().
THEOREM BroadcastImplementsLog ==
  ASSUME ~RecvTimeouts
  PROVE  Spec => ImplementsLog
<1>1. Init => Streams /\ Log!Init
  BY InitStreams DEF Init, Log!Init
<1>2. Streams /\ [Next]_vars => Streams' /\ [Log!Next]_<<log, delivered>>
  BY CountIsTelling, NextStreams
<1> QED BY <1>1, <1>2, PTL DEF Spec, ImplementsLog, Log!Spec, Log!vars
=============================================================================
