----------------------------- MODULE HostProofs -----------------------------
(***************************************************************************)
(* What a host keeps on its disk and in its directories: the control       *)
(* socket, the device key, the log, the tables of the relay and its audit  *)
(* log, for any processes, keys, capacities, subscribers and networks.     *)
(*                                                                         *)
(* The invariants: SocketInv (who holds the lock and whose file the path   *)
(* is), the states of the key file between a rename and its flush, the     *)
(* order of the records through queue, buffer and files of the log,        *)
(* exactly the members having an address once the table of addresses       *)
(* exists, and every audited row that no bound can have removed being in   *)
(* the log.                                                                *)
(***************************************************************************)
EXTENDS ControlSocket, DeviceIdentity, Logger, SchemaMigration, AuditLog, FiniteSetTheorems, WellFoundedInduction, TLAPS

-----------------------------------------------------------------------------
(* ControlSocket: a service that serves can be reached.                    *)

\* The states SocketInit allows: nobody has started, and the path is free or stale.
LEMMA SocketInitial == SocketInit => SocketInv
BY ServiceNames DEF SocketInit, SocketInv

\* Every step of a constructor, of cleanup, of a crash and of a client keeps the invariant.
LEMMA SocketInductive == SocketInv /\ [SocketNext]_sockvars => SocketInv'
<1> SUFFICES ASSUME SocketInv, [SocketNext]_sockvars PROVE SocketInv'
  BY Zenon
<1> USE ServiceNames DEF SocketInv
<1>1. CASE local_pipe_request
  BY Zenon, <1>1 DEF local_pipe_request
<1>2. CASE transfer_times_out
  BY Zenon, <1>2 DEF transfer_times_out
<1>3. ASSUME NEW p \in Service, SocketStep(p) PROVE SocketInv'
  <2>1. CASE lock_socket(p)
    BY <2>1 DEF lock_socket, Goes
  <2>2. CASE remove_stale(p)
    BY <2>2 DEF remove_stale, Goes
  <2>3. CASE bind(p)
    BY <2>3 DEF bind, Goes
  <2>4. CASE listen(p)
    BY <2>4 DEF listen, Goes
  <2>5. CASE start_fails(p)
    BY <2>5 DEF start_fails, Goes
  <2>6. CASE serve(p)
    BY Zenon, <2>6 DEF serve
  <2>7. CASE stop(p)
    BY Zenon, <2>7 DEF stop, Goes
  <2>8. CASE close_listener(p)
    BY Zenon, <2>8 DEF close_listener, Goes
  <2>9. CASE unlink_path(p)
    BY Zenon, <2>9 DEF unlink_path, Goes
  <2>10. CASE release_lock(p)
    BY Zenon, <2>10 DEF release_lock, Goes
  <2>11. CASE crash(p)
    BY Zenon, <2>11 DEF crash
  <2> QED
    BY Zenon, <1>3, <2>1, <2>2, <2>3, <2>4, <2>5, <2>6, <2>7, <2>8, <2>9, <2>10, <2>11 DEF
       SocketStep
<1>4. CASE UNCHANGED sockvars
  BY Zenon, <1>4 DEF sockvars
<1> QED
  BY Zenon, <1>1, <1>2, <1>3, <1>4 DEF SocketNext

\* However many instances of the service start, fail, stop and crash in whatever order, the
\* path of the control socket names the socket of an instance that serves.
THEOREM SocketReachable == SocketSpec => []ServingIsReachable
<1>1. SocketInv => ServingIsReachable
  BY Zenon DEF SocketInv, ServingIsReachable
<1> QED
  BY SocketInitial, SocketInductive, <1>1, PTL DEF SocketSpec

-----------------------------------------------------------------------------
(* DeviceIdentity: the stored key is not lost.                             *)

\* What the absent file is.
LEMMA NoFileFacts == NoFile \in Files /\ NoFile.key = 0
BY DEF NoFile, Files

\* A power loss leaves a file that was forced to the disk as it is.
LEMMA AfterLossFacts ==
  ASSUME NEW f \in Files, f # NoFile => f.synced /\ f.whole, NEW g \in AfterLoss(f)
  PROVE  g \in Files /\ g.key = f.key /\ (g # NoFile => f # NoFile /\ g.synced /\ g.whole)
<1>1. CASE f = NoFile
  BY Zenon, <1>1 DEF AfterLoss
<1>2. CASE f # NoFile
  <2>1. PICK w \in BOOLEAN : g = [f EXCEPT !.synced = TRUE, !.whole = w] /\ w
    BY Zenon, <1>2 DEF AfterLoss, Files
  <2> QED
    BY Zenon, <1>2, <2>1 DEF Files
<1> QED
  BY Zenon, <1>1, <1>2

\* The states IdentityInit allows: no file, or a whole one on the disk.
LEMMA IdentityInitial == IdentityInit => IdentityInv
<1> SUFFICES ASSUME IdentityInit PROVE IdentityInv
  BY Zenon
<1>1. CASE file = NoFile /\ drawn = 0
  BY <1>1, NoFileFacts, IdentityAssumption DEF IdentityInit, IdentityInv
<1>2. ASSUME NEW left \in {"legacy", "protected"},
             file = [key |-> 1, form |-> left, synced |-> TRUE, whole |-> TRUE], drawn = 1
      PROVE  IdentityInv
  BY SMTT(30), <1>2, IdentityAssumption, NoFileFacts DEF Files, IdentityInit, IdentityInv
<1> QED
  BY Zenon, <1>1, <1>2 DEF IdentityInit

\* Every step of a load and of a store, a failure, a kill and a power loss keeps the invariant.
LEMMA IdentityInductive == IdentityInv /\ [IdentityNext]_ivars => IdentityInv'
<1> SUFFICES ASSUME IdentityInv, [IdentityNext]_ivars PROVE IdentityInv'
  BY Zenon
<1> USE DEF IdentityInv, Leave
<1>1. CASE load_or_create
  BY <1>1, NoFileFacts DEF load_or_create
<1>2. CASE read_file
  BY <1>2 DEF read_file
<1>3. CASE load_device_secret
  BY SMTT(30), <1>3 DEF load_device_secret, Files
<1>4. CASE write_temporary
  BY <1>4 DEF write_temporary, encode_secret, protect_secret, Files
<1>5. CASE sync_temporary
  BY Zenon, <1>5 DEF sync_temporary, Files
<1>6. CASE rename_temporary
  BY Zenon, <1>6, NoFileFacts DEF rename_temporary
<1>7. CASE sync_parent_directory
  BY <1>7 DEF sync_parent_directory
<1>8. CASE move_temporary
  BY <1>8, NoFileFacts DEF move_temporary
<1>9. CASE atomic_write_fails
  BY SMTT(30), <1>9, NoFileFacts DEF atomic_write_fails
<1>10. CASE kill
  BY <1>10, NoFileFacts DEF kill
<1>11. CASE power_loss
  <2>1. PICK g \in {disk, file} : file' \in AfterLoss(g) /\ disk' = file'
    BY Zenon, <1>11 DEF power_loss
  <2>2. /\ file' \in Files /\ file'.key = g.key
        /\ file' # NoFile => g # NoFile /\ file'.synced /\ file'.whole
    BY Zenon, <2>1, AfterLossFacts
  <2> QED
    BY SMTT(30), <1>11, <2>1, <2>2, NoFileFacts DEF power_loss
<1>12. CASE UNCHANGED ivars
  BY Zenon, <1>12 DEF ivars
<1> HIDE DEF IdentityInv, Leave
<1> QED
  BY Zenon, <1>1, <1>2, <1>3, <1>4, <1>5, <1>6, <1>7, <1>8, <1>9, <1>10, <1>11, <1>12 DEF IdentityNext

\* A key load_or_create stored is the key of the device for ever: no failed write, kill, power
\* loss or migration replaces it, removes it or leaves a part of it.
THEOREM IdentityIsKept == IdentitySpec => []IdentityKept
<1>1. IdentityInv => IdentityKept
  BY Zenon, NoFileFacts DEF IdentityInv, IdentityKept
<1> QED
  BY IdentityInitial, IdentityInductive, <1>1, PTL DEF IdentitySpec

-----------------------------------------------------------------------------
(* Logger: the newest records are kept.                                    *)

Before(A, B) == \A a \in A, b \in B : a < b

\* The record the worker has taken and not written.
Pending == IF worker.at \in {"close", "remove", "move", "open", "write"} THEN {worker.record} ELSE {}

LoggerTypeOK ==
    /\ files \in [Slots -> Seq(Nat)] /\ buffer \in Seq(Nat) /\ queue \in Seq(Nat)
    /\ accepted \in Nat /\ flusher \in 0 .. accepted + 1
    /\ worker \in [at : {"idle", "close", "remove", "move", "open", "write", "done", "ended"},
                   record : Nat, index : Slots]
    /\ deleted \subseteq Nat

\* Sets of records in the order of their age: rotated away, in the files, in the stream,
\* taken by the worker, queued.
Chain(D, F, B, P, Q) ==
    Before(D, F) /\ Before(D \cup F, B) /\ Before(D \cup F \cup B, P) /\ Before(D \cup F \cup B \cup P, Q)

FilesOrdered == \A i, j \in Slots : i < j => Before(Elements(files[j]), Elements(files[i]))

Ordered ==
    /\ Chain(deleted, InFiles, Elements(buffer), Pending, Elements(queue))
    /\ FilesOrdered
    /\ deleted \cup InFiles \cup Elements(buffer) \cup Pending \cup Elements(queue) \subseteq 1 .. accepted
    /\ \A i, j \in 1 .. Len(queue) : i < j => queue[i] < queue[j]

\* A rotation moves a file to a place that is free, with nothing left in the stream.
Rotating ==
    /\ worker.at \in {"remove", "move", "open"} => buffer = <<>>
    /\ worker.at = "move" => worker.index # 0 /\ files[worker.index] = <<>>

\* No accepted record is unaccounted for, unless the worker gave up.
Accounted ==
    /\ state # "failed" =>
          1 .. accepted \subseteq
             InFiles \cup Elements(buffer) \cup Pending \cup Elements(queue) \cup deleted \cup lost
    /\ promised \subseteq InFiles \cup deleted \cup lost

LoggerInv == LoggerTypeOK /\ Ordered /\ Rotating /\ Accounted

LEMMA SlotsAreNat == 0 \in Slots /\ MaxFiles - 1 \in Slots /\ Slots \subseteq Nat
BY LoggerAssumption DEF Slots

LEMMA ElementsOfEmpty == Elements(<<>>) = {}
BY DEF Elements

LEMMA ElementsOfConcat == ASSUME NEW s \in Seq(Nat), NEW t \in Seq(Nat)
                          PROVE  Elements(s \o t) = Elements(s) \cup Elements(t)
<1>1. Len(s \o t) = Len(s) + Len(t) /\ Len(s) \in Nat /\ Len(t) \in Nat
  OBVIOUS
<1>2. \A i \in 1 .. Len(s) : (s \o t)[i] = s[i]
  OBVIOUS
<1>3. \A i \in 1 .. Len(t) : (s \o t)[Len(s) + i] = t[i]
  OBVIOUS
<1>5. Elements(s \o t) \subseteq Elements(s) \cup Elements(t)
  <2> SUFFICES ASSUME NEW i \in 1 .. Len(s \o t) PROVE (s \o t)[i] \in Elements(s) \cup Elements(t)
    BY Zenon DEF Elements
  <2>1. CASE i \in 1 .. Len(s)
    BY Zenon, <2>1, <1>2 DEF Elements
  <2>2. CASE i - Len(s) \in 1 .. Len(t) /\ i = Len(s) + (i - Len(s))
    BY Zenon, <2>2, <1>3 DEF Elements
  <2> QED
    BY SMTT(30), <2>1, <2>2, <1>1
<1>6. Elements(s) \subseteq Elements(s \o t)
  BY <1>1, <1>2 DEF Elements
<1>7. Elements(t) \subseteq Elements(s \o t)
  <2> SUFFICES ASSUME NEW i \in 1 .. Len(t) PROVE t[i] \in Elements(s \o t)
    BY Zenon DEF Elements
  <2>1. Len(s) + i \in 1 .. Len(s \o t)
    BY <1>1
  <2> QED
    BY Zenon, <1>3, <2>1 DEF Elements
<1> QED
  BY Zenon, <1>5, <1>6, <1>7

LEMMA ElementsOfOne == ASSUME NEW r PROVE Elements(<<r>>) = {r}
BY DEF Elements

LEMMA ElementsOfAppend == ASSUME NEW s \in Seq(Nat), NEW r \in Nat
                          PROVE  Append(s, r) \in Seq(Nat) /\ Elements(Append(s, r)) = Elements(s) \cup {r}
<1>1. Append(s, r) = s \o <<r>> /\ <<r>> \in Seq(Nat)
  OBVIOUS
<1>2. Elements(s \o <<r>>) = Elements(s) \cup Elements(<<r>>)
  BY Zenon, <1>1, ElementsOfConcat
<1>3. Append(s, r) \in Seq(Nat)
  OBVIOUS
<1> QED
  BY Zenon, <1>1, <1>2, <1>3, ElementsOfOne

\* What is in the files, by file.
LEMMA FilesByPlace == \A r : r \in InFiles <=> \E i \in Slots : r \in Elements(files[i])
BY DEF InFiles

\* The stream writes its buffer, and possibly another record, to the file.
LEMMA WrittenOut ==
    ASSUME LoggerTypeOK, NEW s \in Seq(Nat), files' = [files EXCEPT ![0] = @ \o s]
    PROVE  /\ files' \in [Slots -> Seq(Nat)]
           /\ InFiles' = InFiles \cup Elements(s)
           /\ Elements(files'[0]) = Elements(files[0]) \cup Elements(s)
           /\ \A i \in Slots \ {0} : files'[i] = files[i]
<1>1. files'[0] = files[0] \o s /\ files[0] \in Seq(Nat) /\ \A i \in Slots \ {0} : files'[i] = files[i]
  BY Zenon, SlotsAreNat DEF LoggerTypeOK
<1>2. Elements(files'[0]) = Elements(files[0]) \cup Elements(s)
  BY Zenon, <1>1, ElementsOfConcat
<1>3. files' \in [Slots -> Seq(Nat)]
  <2>1. files[0] \o s \in Seq(Nat)
    BY <1>1
  <2> QED
    BY Zenon, <2>1 DEF LoggerTypeOK
<1> QED
  BY SMTT(30), <1>1, <1>2, <1>3, SlotsAreNat DEF InFiles

\* Records that move on to the place of the older ones next to them stay in order.
LEMMA ChainMoves ==
    ASSUME NEW D, NEW F, NEW B, NEW P, NEW Q, Chain(D, F, B, P, Q)
    PROVE  /\ Chain(D, F \cup B, {}, P, Q)
           /\ Chain(D, F, B \cup P, {}, Q)
           /\ Chain(D, F \cup B \cup P, {}, {}, Q)
           /\ Chain(D, F, {}, P, Q)
           /\ Chain(D, F, B, {}, {}) /\ Chain(D, F, {}, {}, {})
BY Zenon DEF Chain, Before

\* The oldest of the files goes ...
LEMMA ChainRemoves ==
    ASSUME NEW D, NEW F, NEW B, NEW P, NEW Q, Chain(D, F, B, P, Q),
           NEW X, NEW G, X \subseteq F, G \subseteq F, Before(X, G)
    PROVE  Chain(D \cup X, G, B, P, Q)
BY DEF Chain, Before

\* ... the worker takes the first of the queue ...
LEMMA ChainTakes ==
    ASSUME NEW D, NEW F, NEW B, NEW Q, Chain(D, F, B, {}, Q), NEW r \in Q, NEW R, R \subseteq Q, Before({r}, R)
    PROVE  Chain(D, F, B, {r}, R)
BY DEF Chain, Before

\* ... and new records are the last.
LEMMA ChainGrows ==
    ASSUME NEW D, NEW F, NEW B, NEW P, NEW Q, Chain(D, F, B, P, Q),
           NEW n \in Nat, D \cup F \cup B \cup P \cup Q \subseteq 1 .. n,
           NEW R, \A r \in R : r \in Nat /\ r > n
    PROVE  Chain(D, F, B, P, Q \cup R)
BY DEF Chain, Before

\* A step that writes the buffer to the file and changes nothing else of the records.
LEMMA WriteOutKeeps ==
    ASSUME LoggerInv, files' = [files EXCEPT ![0] = @ \o buffer], buffer' = <<>>,
           UNCHANGED <<queue, accepted, deleted>>, Pending' = Pending
    PROVE  /\ Ordered' /\ InFiles' = InFiles \cup Elements(buffer)
           /\ files' \in [Slots -> Seq(Nat)] /\ \A i \in Slots \ {0} : files'[i] = files[i]
<1>1. /\ InFiles' = InFiles \cup Elements(buffer)
      /\ files' \in [Slots -> Seq(Nat)] /\ \A i \in Slots \ {0} : files'[i] = files[i]
      /\ Elements(files'[0]) = Elements(files[0]) \cup Elements(buffer)
  BY Zenon, WrittenOut DEF LoggerInv, LoggerTypeOK
<1>2. Elements(buffer') = {}
  BY Zenon, ElementsOfEmpty
<1>3. Chain(deleted, InFiles, Elements(buffer), Pending, Elements(queue))'
  <2>2. Chain(deleted, InFiles \cup Elements(buffer), {}, Pending, Elements(queue))
    BY Zenon, ChainMoves DEF LoggerInv, Ordered
  <2> QED
    BY <1>1, <1>2, <2>2, Zenon
<1>4. FilesOrdered'
  <2> SUFFICES ASSUME NEW i \in Slots, NEW j \in Slots, i < j
               PROVE  Before(Elements(files'[j]), Elements(files'[i]))
    BY Zenon DEF FilesOrdered
  <2>1. j # 0 /\ files'[j] = files[j]
    BY <1>1, SlotsAreNat
  <2>2. CASE i # 0
    BY Zenon, <1>1, <2>1, <2>2 DEF LoggerInv, Ordered, FilesOrdered
  <2>3. CASE i = 0
    <3>1. Elements(files[j]) \subseteq InFiles
      BY Zenon DEF InFiles
    <3> QED
      BY Zenon, <1>1, <2>1, <2>3, <3>1 DEF Before, LoggerInv, Ordered, Chain, FilesOrdered
  <2> QED
    BY Zenon, <2>2, <2>3
<1> QED
  BY Zenon, <1>1, <1>2, <1>3, <1>4 DEF LoggerInv, Ordered

LEMMA LoggerStart == LoggerInit => LoggerInv
<1> SUFFICES ASSUME LoggerInit PROVE LoggerInv
  BY Zenon
<1> QED
  BY SMTT(30), ElementsOfEmpty, SlotsAreNat DEF LoggerInit, LoggerInv, Ordered, Chain, Before,
     Rotating, Accounted, InFiles, AtRest, Pending, LoggerTypeOK, FilesOrdered

\* The threads that log: new records go to the end of the queue.
LEMMA QueueGrows ==
    ASSUME LoggerInv, NEW more \in Seq(Nat), queue' = queue \o more,
           accepted' = accepted + Len(more), \A i \in 1 .. Len(more) : more[i] = accepted + i,
           UNCHANGED <<files, buffer, worker, deleted, lost, promised, state>>,
           flusher' \in 0 .. accepted' + 1
    PROVE  LoggerInv'
<1>1. Elements(queue') = Elements(queue) \cup Elements(more)
  BY Zenon, ElementsOfConcat DEF LoggerInv, LoggerTypeOK
<1>2. /\ InFiles' = InFiles /\ Pending' = Pending /\ accepted \in Nat /\ Len(more) \in Nat
      /\ queue \in Seq(Nat) /\ queue' \in Seq(Nat) /\ accepted' \in Nat
  BY SMTT(30) DEF LoggerInv, LoggerTypeOK, InFiles, Pending
<1>3. Elements(more) = accepted + 1 .. accepted'
  <2>1. ASSUME NEW r \in accepted + 1 .. accepted' PROVE \E k \in 1 .. Len(more) : r = more[k]
    <3>1. r - accepted \in 1 .. Len(more)
      BY <1>2
    <3>3. accepted + (r - accepted) = r
      BY <1>2
    <3> QED
      BY Zenon, <3>1, <3>3
  <2>2. ASSUME NEW k \in 1 .. Len(more) PROVE more[k] \in accepted + 1 .. accepted'
    <3>1. more[k] = accepted + k
      BY Zenon
    <3> QED
      BY <1>2, <3>1
  <2> QED
    BY Zenon, <2>1, <2>2 DEF Elements
<1>5. deleted \cup InFiles \cup Elements(buffer) \cup Pending \cup Elements(queue) \subseteq 1 .. accepted
  BY Zenon DEF LoggerInv, Ordered
<1>6. \A r \in Elements(more) : r \in Nat /\ r > accepted
  BY SMTT(30), <1>2, <1>3
<1>7. Chain(deleted, InFiles, Elements(buffer), Pending, Elements(queue) \cup Elements(more))
  BY Zenon, <1>2, <1>5, <1>6, ChainGrows DEF LoggerInv, Ordered
<1>8. \A i, j \in 1 .. Len(queue') : i < j => queue'[i] < queue'[j]
  <2> SUFFICES ASSUME NEW i \in 1 .. Len(queue'), NEW j \in 1 .. Len(queue'), i < j PROVE queue'[i] < queue'[j]
    BY Zenon
  <2>1. \A k \in 1 .. Len(queue') :
           \/ k <= Len(queue) /\ queue'[k] = queue[k]
           \/ k > Len(queue) /\ queue'[k] = accepted + (k - Len(queue))
    <3> SUFFICES ASSUME NEW k \in 1 .. Len(queue')
                 PROVE  \/ k <= Len(queue) /\ queue'[k] = queue[k]
                        \/ k > Len(queue) /\ queue'[k] = accepted + (k - Len(queue))
      BY Zenon
    <3>1. CASE k <= Len(queue)
      BY <3>1, <1>2
    <3>2. CASE k > Len(queue)
      <4>1. k - Len(queue) \in 1 .. Len(more)
        BY SMTT(30), <3>2, <1>2
      <4>2. queue'[k] = more[k - Len(queue)]
        BY SMTT(30), <3>2, <1>2
      <4> QED
        BY Zenon, <3>2, <4>1, <4>2
    <3> QED
      BY SMTT(30), <1>2, <3>1, <3>2
  <2>2. \A k \in 1 .. Len(queue) : queue[k] \in 1 .. accepted
    BY Zenon, <1>5 DEF Elements
  <2>3. CASE j <= Len(queue)
    BY SMTT(30), <2>1, <2>3, <1>2 DEF LoggerInv, Ordered
  <2>4. CASE j > Len(queue)
    <3>1. queue'[j] = accepted + (j - Len(queue)) /\ i \in Nat /\ j \in Nat /\ Len(queue) \in Nat
      BY <2>1, <2>4, <1>2
    <3>2. CASE i <= Len(queue)
      <4>1. queue'[i] = queue[i] /\ queue[i] \in 1 .. accepted
        BY SMTT(30), <2>1, <2>2, <3>1, <3>2
      <4>2. accepted + (j - Len(queue)) > accepted
        BY <3>1, <2>4, <1>2
      <4>3. \A x \in 1 .. accepted : \A y \in Int : y > accepted => x < y
        BY SMTT(30), <1>2
      <4>4. accepted + (j - Len(queue)) \in Int
        BY SMTT(30), <1>2, <3>1
      <4> HIDE <1>2
      <4> QED
        BY Zenon, <3>1, <4>1, <4>2, <4>3, <4>4
    <3>3. CASE i > Len(queue)
      BY SMTT(30), <2>1, <3>1, <3>3, <1>2
    <3> QED
      BY SMTT(30), <3>1, <3>2, <3>3
  <2> QED
    BY SMTT(30), <1>2, <2>3, <2>4
<1>10. Ordered'
  <2>3. (deleted \cup InFiles \cup Elements(buffer) \cup Pending \cup Elements(queue))' \subseteq 1 .. accepted'
    BY SMTT(30), <1>1, <1>2, <1>3, <1>5
  <2> QED
    BY Zenon, <1>8, <2>3, <1>1, <1>2, <1>7 DEF Ordered, LoggerInv, FilesOrdered
<1>11. Rotating' /\ Accounted'
  BY <1>1, <1>2, <1>3 DEF LoggerInv, Rotating, Accounted
<1> QED
  BY Zenon, <1>10, <1>11, <1>2 DEF LoggerInv, LoggerTypeOK

\* A step that leaves the records where they are.
LEMMA RecordsStay ==
    ASSUME LoggerInv, UNCHANGED <<files, buffer, queue, accepted, deleted, lost, promised>>,
           Pending' = Pending, LoggerTypeOK', Rotating', state' = "failed" \/ state # "failed"
    PROVE  LoggerInv'
<1>1. InFiles' = InFiles
  BY Zenon DEF InFiles
<1> QED
  BY Zenon, <1>1 DEF LoggerInv, Ordered, Accounted, FilesOrdered

\* log and flush.
LEMMA CallersKeep == LoggerInv /\ (log \/ flush) => LoggerInv'
<1> SUFFICES ASSUME LoggerInv, log \/ flush PROVE LoggerInv'
  BY Zenon
<1>1. accepted \in Nat /\ queue \in Seq(Nat) /\ flusher \in 0 .. accepted + 1
  BY Zenon DEF LoggerInv, LoggerTypeOK
<1>2. CASE queue' = queue /\ accepted' = accepted
  <2>1. /\ UNCHANGED <<files, buffer, worker, state, deleted, lost, promised>>
        /\ flusher' \in 0 .. accepted + 1
    BY <1>1, <1>2 DEF log, flush
  <2> QED
    BY Zenon, <1>2, <2>1, RecordsStay DEF LoggerInv, LoggerTypeOK, Rotating, Pending
<1>3. CASE queue' = queue \o <<accepted + 1>> /\ accepted' = accepted + 1
  <2> DEFINE more == <<accepted + 1>>
  <2>1. more \in Seq(Nat) /\ Len(more) = 1 /\ \A i \in 1 .. Len(more) : more[i] = accepted + i
    BY SMTT(30), <1>1
  <2>3. flusher' \in 0 .. accepted' + 1
    BY SMTT(30), <1>1, <1>3 DEF log, flush
  <2>4. queue' = queue \o more /\ accepted' = accepted + Len(more)
    BY Zenon, <1>3, <2>1
  <2> HIDE DEF more
  <2> QED
    BY Zenon, <2>1, <2>3, <2>4, QueueGrows DEF log, flush
<1>4. CASE queue' = queue \o <<accepted + 1, accepted + 2>> /\ accepted' = accepted + 2 /\ flusher' = flusher
  <2> DEFINE more == <<accepted + 1, accepted + 2>>
  <2>1. more \in Seq(Nat) /\ Len(more) = 2 /\ \A i \in 1 .. Len(more) : more[i] = accepted + i
    BY <1>1
  <2>2. UNCHANGED <<files, buffer, worker, deleted, lost, promised, state>>
    BY Zenon DEF log, flush
  <2>3. flusher' \in 0 .. accepted' + 1
    BY <1>1, <1>4
  <2>4. queue' = queue \o more /\ accepted' = accepted + Len(more)
    BY Zenon, <1>4, <2>1
  <2> HIDE DEF more
  <2> QED
    BY Zenon, <2>1, <2>2, <2>3, <2>4, QueueGrows
<1>5. CASE log
  BY Zenon, <1>1, <1>2, <1>3, <1>4, <1>5 DEF log
<1>6. CASE flush
  BY SMTT(30), <1>1, <1>2, <1>3, <1>6 DEF flush
<1> QED
  BY Zenon, <1>5, <1>6

\* The steps that write the buffer out, or lose it.
LEMMA StreamKeeps == LoggerInv /\ (flush_returns \/ rotate_close \/ worker_ends \/ stream_spills) => LoggerInv'
<1> SUFFICES ASSUME LoggerInv, flush_returns \/ rotate_close \/ worker_ends \/ stream_spills PROVE LoggerInv'
  BY Zenon
<1> DEFINE out == files' = [files EXCEPT ![0] = @ \o buffer] /\ buffer' = <<>>
<1>1. UNCHANGED <<queue, accepted, deleted>> /\ worker'.record \in Nat
  BY Zenon, SlotsAreNat DEF flush_returns, rotate_close, worker_ends, stream_spills, Threads, LoggerInv, LoggerTypeOK, AtRest
<1>2. Pending' = Pending
  BY Zenon DEF rotate_close, Pending, LoggerInv, LoggerTypeOK, worker_ends, AtRest, flush_returns,
     stream_spills
<1>3. worker' \in [at : {"idle", "close", "remove", "move", "open", "write", "done", "ended"},
                   record : Nat, index : Slots]
  BY Zenon, SlotsAreNat DEF flush_returns, rotate_close, worker_ends, stream_spills, LoggerInv, LoggerTypeOK, AtRest
<1>4. flusher' \in 0 .. accepted + 1
  BY SMTT(30) DEF flush_returns, rotate_close, worker_ends, stream_spills, Threads, LoggerInv, LoggerTypeOK
<1>6. CASE out
  <2>1. /\ Ordered' /\ InFiles' = InFiles \cup Elements(buffer)
        /\ files' \in [Slots -> Seq(Nat)] /\ \A i \in Slots \ {0} : files'[i] = files[i]
    BY Zenon, <1>1, <1>2, <1>6, WriteOutKeeps
  <2>2. LoggerTypeOK'
    BY <1>1, <1>3, <1>4, <1>6, <2>1 DEF LoggerInv, LoggerTypeOK
  <2>6. promised' \subseteq promised \cup (InFiles \cup Elements(buffer) \cup deleted \cup lost)
    <3>1. CASE flush_returns /\ promised' # promised
      <4>3. 1 .. flusher - 1 \subseteq 1 .. accepted
        BY DEF LoggerInv, LoggerTypeOK
      <4> QED
        BY Zenon, <4>3, ElementsOfEmpty, <3>1 DEF LoggerInv, Accounted, drained, writing_, Pending,
           flush_returns
    <3> QED
      BY Zenon, <3>1 DEF flush_returns, rotate_close, worker_ends, stream_spills, Threads
  <2>7. Accounted'
    BY Zenon, <1>1, <1>2, <2>1, <2>6, <1>6, ElementsOfEmpty DEF LoggerInv, Accounted,
       flush_returns, rotate_close, worker_ends, stream_spills, Threads
  <2> QED
    BY Zenon, <2>1, <2>2, <2>7, <1>3, <1>6 DEF LoggerInv, LoggerTypeOK, Rotating, flush_returns,
       rotate_close, worker_ends, stream_spills, AtRest
<1>7. CASE rotate_close /\ lost' = lost \cup Elements(buffer) /\ files' = files
  <2>1. buffer' = <<>> /\ UNCHANGED <<state, promised>> /\ worker'.at = "remove"
    BY Zenon, <1>7 DEF rotate_close, Threads, LoggerInv, LoggerTypeOK
  <2>2. InFiles' = InFiles /\ Elements(buffer') = {}
    BY Zenon, <1>7, <2>1, ElementsOfEmpty DEF InFiles
  <2>5. LoggerTypeOK' /\ Rotating'
    BY SMTT(30), <1>1, <1>3, <1>4, <1>7, <2>1 DEF LoggerInv, LoggerTypeOK, Rotating
  <2> QED
    BY Zenon, <2>5, <1>1, <1>2, <1>7, <2>2, ChainMoves, <2>1 DEF LoggerInv, Ordered, FilesOrdered,
       Accounted
<1>8. CASE flush_returns /\ UNCHANGED <<files, buffer, promised>>
  BY Zenon, <1>1, <1>3, <1>4, <1>8, <1>2, RecordsStay DEF flush_returns, LoggerInv, LoggerTypeOK,
     Rotating
<1> QED
  BY Zenon, <1>6, <1>7, <1>8 DEF flush_returns, rotate_close, worker_ends, stream_spills

\* The worker takes the oldest record of the queue.
LEMMA PopKeeps == LoggerInv /\ worker_pop => LoggerInv'
<1> SUFFICES ASSUME LoggerInv, worker_pop PROVE LoggerInv'
  BY Zenon
<1> DEFINE r == Head(queue)
           p == IF size # 0 /\ size + 1 > MaxSize THEN "close" ELSE "write"
<1>1. /\ queue \in Seq(Nat) /\ queue # <<>> /\ queue' = Tail(queue) /\ queue' \in Seq(Nat) /\ r \in Nat
      /\ Len(queue) \in Nat /\ Len(queue) # 0 /\ Len(queue') = Len(queue) - 1 /\ r = queue[1]
      /\ \A i \in 1 .. Len(queue') : queue'[i] = queue[i + 1]
  BY SMTT(30) DEF worker_pop, LoggerInv, LoggerTypeOK
<1>2. worker' = [at |-> p, record |-> r, index |-> 0] /\ p \in {"close", "write"} /\ worker.at = "idle"
  BY Zenon DEF worker_pop
<1> HIDE DEF r, p
<1>3. worker'.record = r /\ worker'.at = p /\ Pending = {} /\ Pending' = {r}
  BY Zenon, <1>2 DEF Pending
<1>4. \A i \in 1 .. Len(queue') : i + 1 \in 1 .. Len(queue) /\ queue'[i] = queue[i + 1]
  BY SMTT(30), <1>1
<1>5. r \in Elements(queue) /\ Elements(queue') \subseteq Elements(queue)
  BY <1>1, <1>4 DEF Elements
<1>6. Elements(queue) = {r} \cup Elements(queue')
  <2>1. ASSUME NEW i \in 1 .. Len(queue) PROVE queue[i] = r \/ \E j \in 1 .. Len(queue') : queue[i] = queue'[j]
    <3>1. i = 1 \/ (i - 1 \in 1 .. Len(queue') /\ i = (i - 1) + 1)
      BY <1>1
    <3> QED
      BY Zenon, <1>1, <3>1
  <2> QED
    BY Zenon, <1>5, <2>1 DEF Elements
<1>7. \A i, j \in 1 .. Len(queue) : i < j => queue[i] < queue[j]
  BY Zenon DEF LoggerInv, Ordered
<1>8. Before({r}, Elements(queue'))
  <2>1. \A i \in 1 .. Len(queue') : r < queue'[i]
    BY <1>1, <1>4, <1>7
  <2> QED
    BY Zenon, <2>1 DEF Before, Elements
<1>9. InFiles' = InFiles /\ UNCHANGED <<files, buffer, accepted, deleted, lost, promised, state, flusher>>
  BY Zenon DEF worker_pop, InFiles
<1>11. Chain(deleted, InFiles, Elements(buffer), {r}, Elements(queue'))
  BY Zenon, <1>5, <1>8, ChainTakes, <1>3 DEF LoggerInv, Ordered
<1>12. \A i, j \in 1 .. Len(queue') : i < j => queue'[i] < queue'[j]
  BY SMTT(30), <1>1, <1>4, <1>7
<1>13. Ordered'
  BY SMTT(30), <1>3, <1>5, <1>9, <1>11, <1>12 DEF LoggerInv, Ordered, FilesOrdered
<1> QED
  BY Zenon, <1>13, <1>1, <1>2, <1>9, SlotsAreNat, <1>3, <1>6 DEF LoggerInv, LoggerTypeOK, Rotating,
     Accounted

\* The oldest file goes.
LEMMA RemoveKeeps == LoggerInv /\ rotate_remove => LoggerInv'
<1> SUFFICES ASSUME LoggerInv, rotate_remove PROVE LoggerInv'
  BY Zenon
<1> DEFINE n == MaxFiles - 1
           X == Elements(files[n])
<1>1. /\ n \in Slots /\ 0 \in Slots /\ \A i \in Slots : i # n => i < n
      /\ n = 0 <=> MaxFiles = 1
  BY LoggerAssumption DEF Slots
<1>2. /\ deleted' = deleted \cup X
      /\ files' \in [Slots -> Seq(Nat)] /\ files'[n] = <<>> /\ \A i \in Slots : i # n => files'[i] = files[i]
      /\ UNCHANGED <<buffer, queue, accepted, lost, promised, state, flusher>>
      /\ worker.at = "remove"
  BY <1>1 DEF rotate_remove, Threads, LoggerInv, LoggerTypeOK
<1>3. worker' = [worker EXCEPT !.at = IF MaxFiles = 1 THEN "open" ELSE "move", !.index = n]
  BY Zenon DEF rotate_remove
<1> HIDE DEF n
<1>4. /\ worker' \in [at : {"idle", "close", "remove", "move", "open", "write", "done", "ended"},
                      record : Nat, index : Slots]
      /\ worker'.record = worker.record /\ worker'.at \in {"open", "move"} /\ worker'.index = n
      /\ worker'.at = "move" => n # 0
  BY Zenon, <1>1, <1>3 DEF LoggerInv, LoggerTypeOK
<1>5. Pending' = Pending
  BY Zenon, <1>2, <1>4 DEF Pending
<1>6. X \subseteq InFiles /\ InFiles' \subseteq InFiles /\ InFiles \subseteq InFiles' \cup X
  BY Zenon, <1>1, <1>2, ElementsOfEmpty DEF InFiles
<1>7. Before(X, InFiles')
  <2> SUFFICES ASSUME NEW i \in Slots PROVE Before(X, Elements(files'[i]))
    BY Zenon DEF InFiles, Before
  <2>1. CASE i = n
    BY Zenon, <1>2, <2>1, ElementsOfEmpty DEF Before
  <2>2. CASE i # n
    BY Zenon, <1>1, <1>2, <2>2 DEF LoggerInv, Ordered, FilesOrdered
  <2> QED
    BY Zenon, <2>1, <2>2
<1>8. FilesOrdered'
  BY Zenon, <1>2, ElementsOfEmpty DEF LoggerInv, Ordered, FilesOrdered, Before
<1> HIDE DEF X
<1>10. Chain(deleted \cup X, InFiles', Elements(buffer), Pending, Elements(queue))
  BY Zenon, <1>6, <1>7, ChainRemoves DEF LoggerInv, Ordered
<1>11. Ordered'
  BY SMTT(30), <1>2, <1>5, <1>6, <1>8, <1>10 DEF LoggerInv, Ordered
<1>12. LoggerTypeOK'
  BY SMTT(30), <1>1, <1>2, <1>4, <1>6, <1>11 DEF LoggerInv, LoggerTypeOK, Ordered
<1> QED
  BY Zenon, <1>11, <1>12, <1>2, <1>4, <1>5, <1>6 DEF LoggerInv, Rotating, Accounted

\* A file moves one place, to one that is free: no record is deleted.
LEMMA MoveKeeps == LoggerInv /\ rotate_move => LoggerInv'
<1> SUFFICES ASSUME LoggerInv, rotate_move PROVE LoggerInv'
  BY Zenon
<1> DEFINE n == worker.index
<1>1. n \in Slots /\ n # 0 /\ files[n] = <<>> /\ worker.at = "move" /\ buffer = <<>>
  BY Zenon DEF rotate_move, LoggerInv, LoggerTypeOK, Rotating
<1>2. n - 1 \in Slots /\ n - 1 # n /\ n \in Nat /\ (n - 1 = 0 <=> n = 1)
  BY SMTT(30), <1>1, SlotsAreNat DEF Slots
<1>5. /\ worker' \in [at : {"idle", "close", "remove", "move", "open", "write", "done", "ended"},
                      record : Nat, index : Slots]
      /\ worker'.record = worker.record /\ worker'.at \in {"open", "move"} /\ worker'.index = n - 1
      /\ worker'.at = "move" => n - 1 # 0
  BY Zenon, <1>2 DEF LoggerInv, LoggerTypeOK, rotate_move
<1>7. /\ deleted' = deleted /\ files' \in [Slots -> Seq(Nat)]
      /\ files'[n] = files[n - 1] /\ files'[n - 1] = <<>>
      /\ \A i \in Slots : i # n /\ i # n - 1 => files'[i] = files[i]
  BY Zenon, <1>1, <1>2, ElementsOfEmpty DEF rotate_move, move_file, LoggerInv, LoggerTypeOK
<1> HIDE DEF n
<1>8. InFiles' = InFiles
  <2>1. Elements(files'[n]) = Elements(files[n - 1]) /\ Elements(files'[n - 1]) = {} /\ Elements(files[n]) = {}
    BY Zenon, <1>1, <1>7, ElementsOfEmpty
  <2>2. \A i \in Slots : i = n \/ i = n - 1 \/ Elements(files'[i]) = Elements(files[i])
    BY Zenon, <1>7
  <2> QED
    BY Zenon, <1>1, <1>2, <2>1, <2>2 DEF InFiles
<1>9. FilesOrdered'
  <2> SUFFICES ASSUME NEW i \in Slots, NEW j \in Slots, i < j
               PROVE  Before(Elements(files'[j]), Elements(files'[i]))
    BY Zenon DEF FilesOrdered
  <2>1. CASE i = n - 1 \/ j = n - 1
    BY Zenon, <1>7, <2>1, ElementsOfEmpty DEF Before
  <2>2. CASE i # n - 1 /\ j # n - 1
    <3>1. i \in Nat /\ j \in Nat
      BY Zenon, SlotsAreNat
    <3>2. CASE i = n
      <4>1. n - 1 < j /\ files'[i] = files[n - 1] /\ files'[j] = files[j]
        BY SMTT(30), <1>2, <1>7, <2>2, <3>1, <3>2
      <4> QED
        BY Zenon, <1>2, <4>1 DEF LoggerInv, Ordered, FilesOrdered
    <3>3. CASE j = n
      <4>1. i < n - 1 /\ files'[j] = files[n - 1] /\ files'[i] = files[i]
        BY SMTT(30), <1>2, <1>7, <2>2, <3>1, <3>3
      <4> QED
        BY Zenon, <1>2, <4>1 DEF LoggerInv, Ordered, FilesOrdered
    <3>4. CASE i # n /\ j # n
      BY Zenon, <1>7, <2>2, <3>4 DEF LoggerInv, Ordered, FilesOrdered
    <3> QED
      BY Zenon, <3>2, <3>3, <3>4
  <2> QED
    BY Zenon, <2>1, <2>2
<1> QED
  BY Zenon, <1>7, <1>8, <1>9, <1>5, <1>1 DEF LoggerInv, Ordered, LoggerTypeOK, Rotating, Accounted,
     rotate_move, Threads, Pending

\* The record the worker holds goes to the stream, or with it to the file.
LEMMA WriteKeeps == LoggerInv /\ write_record => LoggerInv'
<1> SUFFICES ASSUME LoggerInv, write_record PROVE LoggerInv'
  BY Zenon
<1> DEFINE r == worker.record
           long == Append(buffer, r)
<1>1. UNCHANGED <<queue, accepted, deleted, lost, promised, state, flusher>> /\ worker.at = "write"
  BY Zenon DEF write_record, Threads
<1>2. r \in Nat /\ long \in Seq(Nat) /\ Elements(long) = Elements(buffer) \cup {r}
  BY Zenon, ElementsOfAppend DEF LoggerInv, LoggerTypeOK
<1>3. /\ worker' \in [at : {"idle", "close", "remove", "move", "open", "write", "done", "ended"},
                      record : Nat, index : Slots]
      /\ worker'.at = "done"
  BY Zenon DEF write_record, LoggerInv, LoggerTypeOK
<1>4. Pending = {r} /\ Pending' = {}
  BY Zenon, <1>1, <1>3 DEF Pending
<1>5. Chain(deleted, InFiles, Elements(buffer), {r}, Elements(queue))
  BY Zenon, <1>4 DEF LoggerInv, Ordered
<1> HIDE DEF r, long
<1>6. Rotating'
  BY Zenon, <1>3 DEF Rotating
<1>7. CASE buffer' = long /\ files' = files
  <2>1. InFiles' = InFiles /\ FilesOrdered'
    BY Zenon, <1>7 DEF InFiles, LoggerInv, Ordered, FilesOrdered
  <2>2. Chain(deleted, InFiles, Elements(buffer) \cup {r}, {}, Elements(queue))
    BY Zenon, <1>5, ChainMoves
  <2>3. Ordered'
    BY Zenon, <1>1, <1>2, <1>4, <1>7, <2>1, <2>2 DEF LoggerInv, Ordered
  <2> QED
    BY Zenon, <1>6, <2>3, <1>1, <1>2, <1>3, <1>4, <1>7, <2>1 DEF LoggerInv, LoggerTypeOK, Accounted
<1>8. CASE buffer' = <<>> /\ files' = [files EXCEPT ![0] = @ \o long]
  <2>1. /\ files' \in [Slots -> Seq(Nat)]
        /\ InFiles' = InFiles \cup Elements(long)
        /\ Elements(files'[0]) = Elements(files[0]) \cup Elements(long)
        /\ \A i \in Slots \ {0} : files'[i] = files[i]
    BY Zenon, <1>2, <1>8, WrittenOut DEF LoggerInv
  <2>2. Chain(deleted, InFiles \cup Elements(buffer) \cup {r}, {}, {}, Elements(queue))
    BY Zenon, <1>5, ChainMoves
  <2>3. Elements(buffer') = {} /\ InFiles' = InFiles \cup Elements(buffer) \cup {r}
    BY Zenon, <1>2, <1>8, <2>1, ElementsOfEmpty
  <2>4. FilesOrdered'
    <3> SUFFICES ASSUME NEW i \in Slots, NEW j \in Slots, i < j
                 PROVE  Before(Elements(files'[j]), Elements(files'[i]))
      BY Zenon DEF FilesOrdered
    <3>1. j # 0 /\ files'[j] = files[j]
      BY <2>1, SlotsAreNat
    <3>4. Elements(files[j]) \subseteq InFiles
      BY Zenon DEF InFiles
    <3> QED
      BY Zenon, <3>1, <3>4, <1>2, <1>5, <2>1 DEF Before, LoggerInv, Ordered, FilesOrdered, Chain
  <2>6. LoggerTypeOK' /\ Accounted'
    BY SMTT(30), <1>1, <1>3, <1>4, <1>8, <2>1, <2>3 DEF LoggerInv, LoggerTypeOK, Accounted
  <2> QED
    BY Zenon, <1>6, <2>6, <1>1, <1>4, <2>2, <2>3, <2>4 DEF LoggerInv, Ordered
<1> QED
  BY Zenon, <1>7, <1>8 DEF write_record, r, long

\* A failure of the worker and a new start of the program lose the queue, and the new start
\* the buffer: nothing of what flush promised.
LEMMA FailureKeeps == LoggerInv /\ (worker_fails \/ reopen) => LoggerInv'
<1> SUFFICES ASSUME LoggerInv, worker_fails \/ reopen PROVE LoggerInv'
  BY Zenon
<1>1. /\ UNCHANGED <<files, accepted, deleted, promised>> /\ queue' = <<>> /\ queue' \in Seq(Nat)
      /\ buffer' \in {buffer, <<>>} /\ flusher' \in {flusher, 0}
      /\ worker' = AtRest \/ worker' = [AtRest EXCEPT !.at = "ended"]
      /\ state' = "failed" \/ lost' = lost \cup ((1 .. accepted) \ (InFiles \cup deleted \cup promised))
      /\ lost \subseteq lost'
  <2>1. CASE worker_fails
    BY SMTT(30), <2>1 DEF worker_fails
  <2>2. CASE reopen
    BY SMTT(30), <2>2 DEF reopen
  <2> QED
    BY Zenon, <2>1, <2>2
<1>2. worker' \in [at : {"idle", "close", "remove", "move", "open", "write", "done", "ended"},
                   record : Nat, index : Slots] /\ worker'.at \in {"idle", "ended"}
  BY <1>1, SlotsAreNat DEF AtRest
<1>3. Pending' = {} /\ InFiles' = InFiles /\ FilesOrdered' /\ Elements(queue') = {}
  BY SMTT(30), <1>1, <1>2, ElementsOfEmpty DEF Pending, InFiles, LoggerInv, Ordered, FilesOrdered
<1>5. Chain(deleted, InFiles, Elements(buffer), {}, {}) /\ Chain(deleted, InFiles, {}, {}, {})
  BY Zenon, ChainMoves DEF LoggerInv, Ordered
<1>6. \A i, j \in 1 .. Len(queue') : i < j => queue'[i] < queue'[j]
  BY <1>1
<1>8. LoggerTypeOK' /\ Rotating'
  <2>1. buffer \in Seq(Nat) /\ <<>> \in Seq(Nat) /\ accepted \in Nat /\ flusher \in 0 .. accepted + 1
    BY DEF LoggerInv, LoggerTypeOK
  <2>3. flusher' \in 0 .. accepted + 1
    BY <1>1, <2>1
  <2> QED
    BY Zenon, <1>1, <1>2, <2>3, <2>1 DEF LoggerInv, LoggerTypeOK, Rotating
<1> QED
  BY Zenon, <1>8, <1>1, <1>3, <1>5, <1>6, ElementsOfEmpty DEF LoggerInv, Accounted, Ordered

LEMMA LoggerInductive == LoggerInv /\ [LoggerNext]_logvars => LoggerInv'
<1> SUFFICES ASSUME LoggerInv, [LoggerNext]_logvars PROVE LoggerInv'
  BY Zenon
<1>1. CASE destroy \/ rotate_open \/ worker_done \/ UNCHANGED logvars
  <2>1. /\ UNCHANGED <<files, buffer, queue, accepted, deleted, lost, promised, flusher>>
        /\ state' = "failed" \/ state # "failed"
    BY Zenon, <1>1 DEF destroy, rotate_open, worker_done, logvars, Threads
  <2>2. /\ worker' \in [at : {"idle", "close", "remove", "move", "open", "write", "done", "ended"},
                        record : Nat, index : Slots]
        /\ \/ worker' = worker
           \/ worker'.at = "write" /\ worker.at = "open" /\ worker'.record = worker.record
           \/ worker'.at = "idle" /\ worker.at = "done"
    <3>1. CASE rotate_open
      BY Zenon, <3>1 DEF rotate_open, LoggerInv, LoggerTypeOK
    <3>2. CASE worker_done
      BY Zenon, <3>2, SlotsAreNat DEF worker_done, AtRest, LoggerInv, LoggerTypeOK
    <3> QED
      BY Zenon, <1>1, <3>1, <3>2 DEF destroy, logvars, LoggerInv, LoggerTypeOK
  <2> QED
    BY Zenon, <2>1, RecordsStay, <2>2 DEF Pending, LoggerInv, LoggerTypeOK, Rotating
<1> QED
  BY Zenon, <1>1, CallersKeep, StreamKeeps, PopKeeps, RemoveKeeps, MoveKeeps, WriteKeeps, FailureKeeps
     DEF LoggerNext

\* For any capacity, file size and number of files, and through crashes and failures between
\* the file operations of a rotation: records are deleted oldest first, the files stay in
\* order, and every record that a flush promised is kept until it is one of the oldest.
THEOREM NewestAreKeptHolds == LoggerSpec => []NewestAreKept
<1>1. LoggerInv => NewestAreKept
  BY Zenon DEF LoggerInv, Ordered, Chain, FilesOrdered, Before, Accounted, NewestAreKept
<1> QED
  BY <1>1, LoggerStart, LoggerInductive, PTL DEF LoggerSpec

-----------------------------------------------------------------------------
(* SchemaMigration: a migration is whole.                                  *)

Places == Cardinality(Subscriber)

LEMMA PlacesAreNumbers == Places \in Nat /\ IsFiniteSet(Subscriber) /\ Old \subseteq Subscriber
  BY MigrationAssumption, FS_CardinalityType DEF Places

\* Nobody has an address before the table of the addresses exists, and then exactly the
\* members have one; no process works from a version that is ahead of the database's.
MigrationInv ==
    /\ user_version \in 0 .. Current /\ objects = 1 .. user_version
    /\ rows \subseteq Subscriber
    /\ address \in [Subscriber -> 0 .. Places]
    /\ user_version < 3 => \A s \in Subscriber : address[s] = Unassigned
    /\ user_version >= 3 => \A s \in Subscriber : address[s] # Unassigned <=> s \in rows
    /\ \A s, t \in Subscriber : s # t /\ address[s] # Unassigned => address[s] # address[t]
    /\ \A p \in Process : opener[p].at = "migrate" => opener[p].version \in 0 .. user_version
    /\ \A p \in Process : opener[p].at = "open" => user_version = Current
    /\ DOMAIN opener = Process

\* The address of a new member is free.
LEMMA FreePlace ==
  ASSUME NEW given \in [Subscriber -> 0 .. Places], NEW who \in Subscriber, given[who] = Unassigned
  PROVE  /\ insert_lease_into(given) \in 1 .. Places
         /\ \A s \in Subscriber : given[s] # insert_lease_into(given)
  <1> DEFINE Free == {i \in 1 .. Places : \A s \in Subscriber : given[s] # i}
  <1>1. Places \in Nat /\ IsFiniteSet(Subscriber)
    BY Zenon, PlacesAreNumbers
  <1>2. Free # {}
    <2>1. SUFFICES ASSUME \A i \in 1 .. Places : \E s \in Subscriber : given[s] = i PROVE FALSE
      BY Zenon
    <2> DEFINE rest == Subscriber \ {who}
               f == [i \in 1 .. Places |-> CHOOSE s \in Subscriber : given[s] = i]
    <2>2. \A i \in 1 .. Places : f[i] \in Subscriber /\ given[f[i]] = i
      BY Zenon, <2>1
    <2>4. f \in [1 .. Places -> rest]
      BY SMTT(30), <2>2 DEF Unassigned
    <2>5. IsFiniteSet(rest) /\ Cardinality(rest) < Places
      <3>1. IsFiniteSet(rest) /\ Cardinality(rest) = Places - 1
        BY Zenon, <1>1, FS_RemoveElement DEF Places
      <3> QED BY SMTT(30), <1>1, <3>1
    <2>6. IsFiniteSet(1 .. Places) /\ Cardinality(1 .. Places) = Places
      BY SMTT(30), <1>1, FS_Interval
    <2> HIDE DEF f, rest
    <2>7. \E i, j \in 1 .. Places : i # j /\ f[i] = f[j]
      BY Zenon, <2>4, <2>5, <2>6, FS_PigeonHole
    <2> QED BY Zenon, <2>2, <2>7
  <1>3. Free \subseteq Nat
    BY <1>1
  <1>4. \A i : i \in Free <=> i \in 1 .. Places /\ \A s \in Subscriber : given[s] # i
    BY Zenon
  <1> HIDE DEF Free
  <1>5. PICK i \in Free : \A j \in Free : ~ (<<j, i>> \in OpToRel(<, Nat))
    BY <1>2, <1>3, WFMin, NatLessThanWellFounded, Zenon
  <1>6. \A j \in Free : ~ (j < i)
    BY Zenon, <1>3, <1>5 DEF OpToRel
  <1> QED BY SMTT(30), <1>4, <1>1, <1>6 DEF insert_lease_into, Places

\* migrate_to_v3 gives every member an address of its own, and nobody else one.
LEMMA AssignedIsOwn ==
  ASSUME rows \subseteq Subscriber
  PROVE  /\ Assigned \in [Subscriber -> 0 .. Places]
         /\ \A s \in Subscriber : Assigned[s] # Unassigned <=> s \in rows
         /\ \A s, t \in Subscriber : s # t /\ Assigned[s] # Unassigned => Assigned[s] # Assigned[t]
  <1>1. Places \in Nat /\ IsFiniteSet(Subscriber)
    BY Zenon, PlacesAreNumbers
  <1> DEFINE n == Cardinality(rows)
             Fits(given) == /\ \A s \in Subscriber : given[s] = Unassigned <=> s \notin rows
                            /\ {given[s] : s \in rows} = 1 .. n
  <1>2. IsFiniteSet(rows) /\ n <= Places /\ n \in Nat
    BY Zenon, <1>1, FS_Subset, FS_CardinalityType DEF Places
  <1>3. IsFiniteSet(1 .. n) /\ Cardinality(1 .. n) = n
    BY SMTT(30), <1>2, FS_Interval
  <1> HIDE DEF n
  <1>4. \E given \in [Subscriber -> 0 .. Places] : Fits(given)
    <2>2. PICK f : f \in Bijection(rows, 1 .. n)
      BY Zenon, <1>2, <1>3, FS_SameCardinalityBij DEF ExistsBijection, n
    <2>3. f \in [rows -> 1 .. n] /\ \A i \in 1 .. n : \E s \in rows : f[s] = i
      BY Zenon, <2>2 DEF Bijection, Injection, Surjection
    <2> DEFINE g == [s \in Subscriber |-> IF s \in rows THEN f[s] ELSE 0]
    <2>4. \A s \in Subscriber : g[s] = IF s \in rows THEN f[s] ELSE 0
      BY Zenon
    <2>5. \A s \in rows : f[s] \in 1 .. n /\ f[s] \in 0 .. Places /\ f[s] # 0
      BY <1>1, <1>2, <2>3
    <2>6. g \in [Subscriber -> 0 .. Places]
      BY <1>1, <2>5
    <2> HIDE DEF g
    <2> QED BY SMTT(30), <2>6, <2>4, <2>5, <2>3 DEF Unassigned
  <1>5. Assigned \in [Subscriber -> 0 .. Places] /\ Fits(Assigned)
    BY Zenon, <1>4 DEF Assigned, Places, n
  <1> DEFINE h == [s \in rows |-> Assigned[s]]
  <1>6. h \in Surjection(rows, 1 .. n)
    BY Zenon, <1>5 DEF Surjection
  <1> HIDE DEF h
  <1>7. h \in Injection(rows, 1 .. n)
    BY Zenon, <1>2, <1>3, <1>6, FS_SurjSameCardinalityImpliesInj DEF n
  <1> QED BY Zenon, <1>5, <1>7 DEF Injection, IsInjective, h

LEMMA WholeByInv ==
  ASSUME MigrationInv
  PROVE  Whole
  BY SMTT(30) DEF MigrationInv, Current, Leased, Whole

\* No member that has an address gets another one.
AddressesStay == \A s \in Leased : s \in rows' => address'[s] = address[s]

\* What a process works from, after a step of p.
LEMMA OpenersAfter ==
  ASSUME MigrationInv, NEW p \in Process, NEW place, NEW v, Step(p, place, v),
         user_version' \in 0 .. Current, user_version' >= user_version,
         place = "migrate" => v \in 0 .. user_version',
         place = "open" => user_version' = Current
  PROVE  /\ \A q \in Process : opener'[q].at = "migrate" => opener'[q].version \in 0 .. user_version'
         /\ \A q \in Process : opener'[q].at = "open" => user_version' = Current
         /\ DOMAIN opener' = Process
  BY SMTT(30) DEF MigrationInv, Step, Current

LEMMA Refused ==
  ASSUME MigrationInv, NEW p \in Process, NEW place, NEW v, Step(p, place, v),
         UNCHANGED <<user_version, objects, rows, address>>,
         place = "migrate" => v \in 0 .. user_version, place = "open" => user_version = Current
  PROVE  MigrationInv' /\ AddressesStay
  <1>1. user_version \in 0 .. Current /\ user_version >= user_version
    BY DEF MigrationInv, Current
  <1> QED BY Zenon, <1>1, OpenersAfter DEF MigrationInv, AddressesStay

LEMMA TablesMade ==
  ASSUME MigrationInv, NEW p \in Process, NEW v \in 1 .. Current, v # 3, migrate_to(p, v)
  PROVE  MigrationInv' /\ AddressesStay
  <1>1. CASE CanCreate(v)
    <2>1. /\ objects' = objects \cup {v} /\ user_version' = v /\ UNCHANGED <<rows, address>>
          /\ Step(p, "migrate", v) /\ opener[p].at = "migrate" /\ opener[p].version = v - 1 /\ v \notin objects
      BY <1>1 DEF migrate_to, create_tables, CanCreate
    <2>2. user_version \in 0 .. Current /\ objects = 1 .. user_version /\ v - 1 \in 0 .. user_version
      BY Zenon, <2>1 DEF MigrationInv
    <2>3. user_version = v - 1 /\ v \in 0 .. Current /\ v \in 0 .. v
      BY <2>1, <2>2 DEF Current
    <2>4. objects' = 1 .. v
      BY SMTT(30), <2>1, <2>2, <2>3 DEF Current
    <2>5. (v < 3 => user_version < 3) /\ (v >= 3 => user_version >= 3) /\ v >= user_version
      BY <2>3 DEF Current
    <2> QED BY Zenon, <2>1, <2>3, <2>4, <2>5, OpenersAfter DEF MigrationInv, AddressesStay
  <1>2. CASE ~CanCreate(v)
    BY Zenon, <1>2, Refused DEF migrate_to, refuse
  <1> QED BY Zenon, <1>1, <1>2

LEMMA AddressesGiven ==
  ASSUME MigrationInv, NEW p \in Process, migrate_to_v3(p)
  PROVE  MigrationInv' /\ AddressesStay
  <1>1. CASE CanCreate(3)
    <2>1. /\ objects' = objects \cup {3} /\ user_version' = 3 /\ UNCHANGED rows /\ address' = Assigned
          /\ Step(p, "migrate", 3) /\ opener[p].at = "migrate" /\ opener[p].version = 2 /\ 3 \notin objects
      BY SMTT(30), <1>1 DEF migrate_to_v3, create_tables, CanCreate
    <2>2. user_version \in 0 .. Current /\ objects = 1 .. user_version /\ 2 \in 0 .. user_version
      BY Zenon, <2>1 DEF MigrationInv
    <2>3. user_version = 2 /\ 3 \in 0 .. Current /\ 3 \in 0 .. 3 /\ ~(3 < 3) /\ 3 >= 3 /\ 3 >= user_version
      BY <2>1, <2>2 DEF Current
    <2>4. objects' = 1 .. 3
      BY SMTT(30), <2>1, <2>2, <2>3
    <2>6. /\ address' \in [Subscriber -> 0 .. Places]
          /\ \A s \in Subscriber : address'[s] # Unassigned <=> s \in rows'
          /\ \A s, t \in Subscriber : s # t /\ address'[s] # Unassigned => address'[s] # address'[t]
      BY <2>1, AssignedIsOwn, Zenon DEF MigrationInv
    <2>7. AddressesStay
      BY SMTT(30), <2>3 DEF MigrationInv, AddressesStay, Leased
    <2> QED BY Zenon, <2>1, <2>3, <2>4, <2>6, <2>7, OpenersAfter DEF MigrationInv
  <1>2. CASE ~CanCreate(3)
    BY Zenon, <1>2, Refused DEF migrate_to_v3, refuse
  <1> QED BY Zenon, <1>1, <1>2

LEMMA MembersComeAndGo ==
  ASSUME MigrationInv, NEW p \in Process, NEW s \in Subscriber, insert_member(p, s) \/ delete_member(p, s)
  PROVE  MigrationInv' /\ AddressesStay
  <1>1. UNCHANGED <<user_version, objects, opener>> /\ user_version = Current
    BY Zenon DEF insert_member, delete_member, MigrationInv
  <1>2. ~(user_version < 3) /\ user_version >= 3
    BY <1>1 DEF Current
  <1>3. address \in [Subscriber -> 0 .. Places] /\ rows \subseteq Subscriber /\ Places \in Nat
    BY Zenon, PlacesAreNumbers DEF MigrationInv
  <1>4. /\ \A t \in Subscriber : address[t] # Unassigned <=> t \in rows
        /\ \A r, t \in Subscriber : r # t /\ address[r] # Unassigned => address[r] # address[t]
    BY <1>2, Zenon DEF MigrationInv
  <1>5. /\ rows' \subseteq Subscriber /\ address' \in [Subscriber -> 0 .. Places]
        /\ \A t \in Subscriber : address'[t] # Unassigned <=> t \in rows'
        /\ \A r, t \in Subscriber : r # t /\ address'[r] # Unassigned => address'[r] # address'[t]
        /\ AddressesStay
    <2>1. CASE insert_member(p, s)
      <3>1. PICK i : i = insert_lease_into(address)
        BY Zenon
      <3> QED BY SMTT(30), <1>3, <1>4, <3>1, FreePlace, <2>1 DEF AddressesStay, Leased, Unassigned,
           insert_member
    <2>2. CASE delete_member(p, s)
      BY SMTT(30), <2>2, <1>3, <1>4 DEF delete_member, Unassigned, AddressesStay, Leased
    <2> QED BY Zenon, <2>1, <2>2
  <1> QED BY <1>1, <1>2, <1>5, Zenon DEF MigrationInv

LEMMA MigrationStart ==
  ASSUME MigrationInit
  PROVE  MigrationInv
  BY SMTT(30), PlacesAreNumbers DEF MigrationInit, Current, Places, Closed, MigrationInv

LEMMA MigrationSteps ==
  ASSUME MigrationInv, MigrationNext
  PROVE  MigrationInv' /\ AddressesStay
  <1>1. PICK p \in Process :
            \/ migrate_begin(p) \/ \E v \in 1 .. Current : migrate_to(p, v)
            \/ migrate_to_v3(p) \/ busy(p) \/ validate_schema(p) \/ crash_or_close(p)
            \/ \E s \in Subscriber : insert_member(p, s) \/ delete_member(p, s)
    BY Zenon DEF MigrationNext
  <1>2. CASE migrate_begin(p)
    <2>1. user_version \in 0 .. user_version
      BY SMTT(30) DEF MigrationInv, Current
    <2> QED BY Zenon, <1>2, <2>1, Refused DEF migrate_begin
  <1>3. CASE \E v \in 1 .. Current : migrate_to(p, v)
    BY Zenon, <1>3, TablesMade DEF migrate_to
  <1>4. CASE refuse(p)
    BY Zenon, <1>4, Refused DEF refuse
  <1>5. CASE validate_schema(p)
    <2>1. CASE validate_schema_v(Current) /\ rows \subseteq Leased
      <3>1. user_version = Current
        BY SMTT(30), <2>1 DEF validate_schema_v, MigrationInv, Current
      <3> QED BY Zenon, <1>5, <2>1, <3>1, Refused DEF validate_schema
    <2>2. CASE ~(validate_schema_v(Current) /\ rows \subseteq Leased)
      BY Zenon, <1>4, <1>5, <2>2 DEF validate_schema
    <2> QED BY Zenon, <2>1, <2>2
  <1> QED BY <1>1, <1>2, <1>3, <1>4, <1>5, AddressesGiven, MembersComeAndGo, Zenon DEF busy, crash_or_close

\* Every step of every process leaves a whole database, and no member's address changes,
\* whatever the version a process works from and whenever one crashes.
THEOREM MigrationsAreWhole == MigrationSpec => MigratedWhole
  <1>1. MigrationInv /\ [MigrationNext]_mvars => MigrationInv'
    BY Zenon, MigrationSteps DEF MigrationInv, mvars
  <1>2. MigrationInv /\ MigrationInv' /\ [MigrationNext]_mvars => [Whole' /\ \A s \in Leased : s \in rows' => address'[s] = address[s]]_mvars
    <2>1. MigrationInv' => Whole'
      BY WholeByInv, PTL
    <2> QED BY Zenon, <2>1, MigrationSteps DEF AddressesStay
  <1> QED BY <1>1, <1>2, MigrationStart, PTL DEF MigrationSpec, MigratedWhole

-----------------------------------------------------------------------------
(* AuditLog: what was audited is kept.                                     *)

\* Rows written one after the other: no two have the same number.
Numbered(some) ==
    /\ IsFiniteSet(some)
    /\ \A e \in some : e.sequence \in Nat /\ e.time \in Nat
    /\ \A e, f \in some : e.sequence = f.sequence => e = f

LaterIn(some, e) == {f \in some : f.sequence > e.sequence}

LEMMA LatestIs == \A some, k : Latest(some, k) = {e \in some : Cardinality(LaterIn(some, e)) < k}
  BY SMTT(30) DEF Latest, LaterIn

LEMMA NumberedSubset ==
  ASSUME NEW S, Numbered(S), NEW T, T \subseteq S
  PROVE  Numbered(T) /\ Cardinality(T) \in Nat /\ Cardinality(S) \in Nat /\ Cardinality(T) <= Cardinality(S)
  BY Zenon, FS_Subset, FS_CardinalityType DEF Numbered

\* No more than k rows are among the k latest.
LEMMA LatestAreFew ==
  ASSUME NEW S, Numbered(S), NEW k \in Nat
  PROVE  Latest(S, k) \subseteq S /\ Numbered(Latest(S, k)) /\ Cardinality(Latest(S, k)) <= k
  <1> DEFINE L == Latest(S, k)
             N == {e.sequence : e \in L}
  <1>1. L \subseteq S /\ \A e \in L : Cardinality(LaterIn(S, e)) < k
    BY Zenon, LatestIs
  <1>2. Numbered(L) /\ Cardinality(L) \in Nat
    BY Zenon, <1>1, NumberedSubset
  <1> HIDE DEF L
  <1>3. CASE L = {}
    BY SMTT(30), <1>3, FS_EmptySet, <1>1, <1>2 DEF L
  <1>4. CASE L # {}
    <2>1. N # {} /\ N \subseteq Nat
      BY SMTT(30), <1>2, <1>4 DEF Numbered
    <2>2. \A i : i \in N <=> \E e \in L : e.sequence = i
      BY Zenon
    <2> HIDE DEF N
    <2>3. PICK i \in N : \A j \in N : ~ (<<j, i>> \in OpToRel(<, Nat))
      BY <2>1, WFMin, NatLessThanWellFounded, Zenon
    <2>5. PICK e \in L : e.sequence = i
      BY Zenon, <2>2
    <2>6. \A f \in L \ {e} : f.sequence > e.sequence
      <3> SUFFICES ASSUME NEW f \in L \ {e} PROVE f.sequence > e.sequence
        BY Zenon
      <3>3. ~(f.sequence < e.sequence)
        BY Zenon, <2>5, <2>1, <2>3, <2>2 DEF OpToRel
      <3> QED BY SMTT(30), <3>3, <1>2 DEF Numbered
    <2>9. Cardinality(L \ {e}) = Cardinality(L) - 1
      BY Zenon, <1>2, <2>5, FS_RemoveElement DEF Numbered
    <2>10. Cardinality(LaterIn(S, e)) < k
      BY Zenon, <1>1
    <2> QED BY SMTT(30), <1>1, <1>2, <2>9, <2>10, NumberedSubset, <2>6 DEF L, LaterIn
  <1> QED BY Zenon, <1>3, <1>4

\* A row with fewer than k later ones among T is among the k latest of a part of T.
LEMMA StaysLatest ==
  ASSUME NEW T, Numbered(T), NEW S, S \subseteq T, NEW e \in S, NEW k \in Nat, ~(Cardinality(LaterIn(T, e)) >= k)
  PROVE  e \in Latest(S, k)
  <1>3. /\ Cardinality(LaterIn(S, e)) <= Cardinality(LaterIn(T, e))
        /\ Cardinality(LaterIn(S, e)) \in Nat /\ Cardinality(LaterIn(T, e)) \in Nat
    BY Zenon, NumberedSubset DEF LaterIn
  <1> QED BY SMTT(30), LatestIs, <1>3

LEMMA OldestAge ==
  ASSUME NEW t \in Int
  PROVE  Max({0, t}) \in {0, t} /\ Max({0, t}) >= 0 /\ Max({0, t}) >= t
  <1> DEFINE P(x) == \A y \in {0, t} : x >= y
  <1> QED BY SMTT(30) DEF Max

-----------------------------------------------------------------------------
(* What the log holds.                                                     *)

Of(some, n) == {f \in some : f.network = n}

\* Every row that may not be gone is in the log.
AuditInv ==
    /\ sequence \in Nat /\ wall \in Nat
    /\ Numbered(history) /\ \A e \in history : e.sequence <= sequence
    /\ network_audit \subseteq history
    /\ \A e \in history : ~MayBeGone(e) => e \in network_audit
    /\ Cardinality(network_audit) <= Total
    /\ \A n \in Group : Cardinality(Of(network_audit, n)) <= PerNetwork

LEMMA AuditLimits ==
  PerNetwork \in Nat /\ Total \in Nat /\ Shown \in Nat /\ Age \in Nat /\ MaxWall \in Nat /\ 0 <= PerNetwork /\ 0 <= Total
  BY SMTT(30), AuditAssumption

\* A row that may not be gone, in terms of what came later.
LEMMA NotGone ==
  ASSUME NEW e
  PROVE  MayBeGone(e) <=> \/ Cardinality(LaterIn(Of(history, e.network), e)) >= PerNetwork
                          \/ Cardinality(LaterIn(history, e)) >= Total
                          \/ \E f \in LaterIn(history, e) : f.time - Age > e.time
  BY Zenon DEF LaterIn, Of, MayBeGone

\* The rows of network n that are not too old to be shown.
OfAge(some, n) == {f \in some : f.network = n /\ f.time >= wall - Age}

LEMMA ShownAre ==
  ASSUME AuditInv, NEW n
  PROVE  audit_events(n) = Latest(OfAge(network_audit, n), Shown)
  <1>1. \A f \in network_audit : f.time >= Max({0, wall - Age}) <=> f.time >= wall - Age
    BY SMTT(30), AuditLimits, OldestAge DEF AuditInv, Numbered
  <1>2. {f \in network_audit : f.network = n /\ f.time >= Max({0, wall - Age})} = OfAge(network_audit, n)
    BY Zenon, <1>1 DEF OfAge
  <1> QED BY Zenon, <1>2 DEF audit_events

\* The log is as the property says.
LEMMA KeptByInv ==
  ASSUME AuditInv
  PROVE  AuditIsKept
  <1>1. ASSUME NEW n \in Group, NEW e \in OfAge(history, n), ~MayBeGone(e),
               Cardinality(LaterIn(OfAge(history, n), e)) < Shown
        PROVE  e \in audit_events(n)
    <2>1. Numbered(OfAge(history, n)) /\ OfAge(network_audit, n) \subseteq OfAge(history, n)
      BY Zenon, NumberedSubset DEF AuditInv, OfAge
    <2>2. e \in OfAge(network_audit, n)
      BY Zenon, <1>1 DEF AuditInv, OfAge
    <2>3. Shown \in Nat /\ Cardinality(LaterIn(OfAge(history, n), e)) \in Nat
      BY Zenon, <2>1, AuditLimits, NumberedSubset DEF LaterIn
    <2>4. ~(Cardinality(LaterIn(OfAge(history, n), e)) >= Shown)
      BY SMTT(30), <1>1, <2>3
    <2>5. e \in Latest(OfAge(network_audit, n), Shown)
      BY Zenon, <2>1, <2>2, <2>3, <2>4, StaysLatest
    <2> QED BY Zenon, <2>5, ShownAre
  <1>2. ASSUME NEW n \in Group PROVE Cardinality(audit_events(n)) <= Shown
    <2>1. Numbered(OfAge(network_audit, n))
      BY Zenon, NumberedSubset DEF AuditInv, OfAge
    <2> QED BY Zenon, <2>1, AuditLimits, LatestAreFew, ShownAre
  <1>3. ASSUME NEW n, NEW e
        PROVE  {f \in history : f.sequence > e.sequence /\ f.network = n /\ f.time >= wall - Age}
                 = LaterIn(OfAge(history, n), e)
    BY Zenon DEF OfAge, LaterIn
  <1>4. \A n \in Group : \A e \in history :
          (e.network = n /\ e.time >= wall - Age) /\ ~MayBeGone(e)
            /\ Cardinality({f \in history : f.sequence > e.sequence /\ f.network = n /\ f.time >= wall - Age}) < Shown
          => e \in audit_events(n)
    BY Zenon, <1>1, <1>3 DEF OfAge
  <1> QED BY Zenon, <1>2, <1>4 DEF AuditIsKept, AuditInv, Of

\* A row is written.
LEMMA RowWritten ==
  ASSUME AuditInv, NEW e, e.sequence = sequence + 1, e.time = wall, e.network \in Group,
         append_audit_locked(e), sequence' = e.sequence, history' = history \cup {e}, UNCHANGED wall
  PROVE  AuditInv'
  <1> DEFINE all == network_audit \cup {e}
             own == Of(all, e.network)
             of_network == (all \ own) \cup Latest(own, PerNetwork)
             young == {f \in of_network : f.time >= Max({0, e.time - Age})}
  <1>0. /\ sequence \in Nat /\ wall \in Nat /\ PerNetwork \in Nat /\ Total \in Nat /\ Age \in Nat
        /\ e.sequence \in Nat /\ e.time \in Nat /\ e.time - Age \in Int /\ e.sequence = sequence + 1
    BY AuditLimits DEF AuditInv
  <1>1. network_audit' = Latest(young, Total)
    BY Zenon DEF append_audit_locked, Of
  <1>2. Numbered(history') /\ \A f \in history' : f.sequence <= sequence'
    BY SMTT(30), <1>0, FS_AddElement DEF AuditInv, Numbered
  <1>3. all \subseteq history' /\ own \subseteq all /\ Latest(own, PerNetwork) \subseteq own
    BY Zenon, LatestIs DEF AuditInv, Of
  <1>4. of_network \subseteq history' /\ young \subseteq history'
    BY Zenon, <1>3
  <1>5. Numbered(young) /\ Numbered(own) /\ Numbered(all)
    BY Zenon, <1>2, <1>3, <1>4, NumberedSubset
  <1>6. network_audit' \subseteq young /\ Cardinality(network_audit') <= Total
    BY Zenon, <1>0, <1>1, <1>5, LatestAreFew
  <1>7. \A n \in Group : Cardinality(Of(network_audit', n)) <= PerNetwork
    <2> SUFFICES ASSUME NEW n \in Group PROVE Cardinality(Of(network_audit', n)) <= PerNetwork
      BY Zenon
    <2>1. CASE n = e.network
      <3>2. Numbered(Latest(own, PerNetwork)) /\ Cardinality(Latest(own, PerNetwork)) <= PerNetwork
        BY Zenon, <1>0, <1>5, LatestAreFew
      <3>3. /\ Cardinality(Of(network_audit', n)) \in Nat /\ Cardinality(Latest(own, PerNetwork)) \in Nat
            /\ Cardinality(Of(network_audit', n)) <= Cardinality(Latest(own, PerNetwork))
        BY Zenon, <3>2, NumberedSubset, <1>6, <2>1 DEF Of
      <3> HIDE DEF own
      <3> QED BY <1>0, <3>2, <3>3
    <2>2. CASE n # e.network
      <3>4. /\ Cardinality(Of(network_audit', n)) \in Nat /\ Cardinality(Of(network_audit, n)) \in Nat
            /\ Cardinality(Of(network_audit', n)) <= Cardinality(Of(network_audit, n))
        BY Zenon, NumberedSubset, <1>3, <1>6, <2>2 DEF AuditInv, Of
      <3> QED BY SMTT(30), <1>0, <3>4 DEF AuditInv
    <2> QED BY Zenon, <2>1, <2>2
  <1>8. ASSUME NEW f \in history', ~MayBeGone(f)' PROVE f \in network_audit'
    <2>1. /\ ~(Cardinality(LaterIn(Of(history', f.network), f)) >= PerNetwork)
          /\ ~(Cardinality(LaterIn(history', f)) >= Total)
          /\ \A g \in LaterIn(history', f) : ~(g.time - Age > f.time)
      BY Zenon, <1>8 DEF LaterIn, Of, MayBeGone
    <2>2. f \in all
      <3>1. CASE f \in history
        <4>1. /\ LaterIn(history, f) \subseteq LaterIn(history', f) /\ LaterIn(history', f) \subseteq history'
              /\ LaterIn(Of(history, f.network), f) \subseteq LaterIn(Of(history', f.network), f)
              /\ LaterIn(Of(history', f.network), f) \subseteq history'
          BY Zenon DEF LaterIn, Of
        <4>2. Numbered(LaterIn(history', f)) /\ Numbered(LaterIn(Of(history', f.network), f))
          BY Zenon, <1>2, <4>1, NumberedSubset
        <4>3. /\ Cardinality(LaterIn(history, f)) \in Nat /\ Cardinality(LaterIn(history', f)) \in Nat
              /\ Cardinality(LaterIn(history, f)) <= Cardinality(LaterIn(history', f))
          BY Zenon, <4>1, <4>2, NumberedSubset
        <4>4. /\ Cardinality(LaterIn(Of(history, f.network), f)) \in Nat /\ Cardinality(LaterIn(Of(history', f.network), f)) \in Nat
              /\ Cardinality(LaterIn(Of(history, f.network), f)) <= Cardinality(LaterIn(Of(history', f.network), f))
          BY Zenon, <4>1, <4>2, NumberedSubset
        <4>5. ~(Cardinality(LaterIn(history, f)) >= Total)
          BY <1>0, <2>1, <4>3
        <4>6. ~(Cardinality(LaterIn(Of(history, f.network), f)) >= PerNetwork)
          BY SMTT(30), <1>0, <2>1, <4>4
        <4> QED BY Zenon, <3>1, <4>5, <4>6, NotGone, <2>1, <4>1 DEF AuditInv
      <3>2. CASE f = e
        BY Zenon, <3>2
      <3> QED BY Zenon, <3>1, <3>2
    <2>3. f \in of_network
      <3>1. CASE f \in own
        <4>1. f.network = e.network /\ own \subseteq Of(history', f.network) /\ Of(history', f.network) \subseteq history'
          BY Zenon, <1>3, <3>1 DEF Of
        <4> HIDE DEF own
        <4> QED BY Zenon, <1>0, <2>1, <3>1, <4>1, StaysLatest, <1>2, NumberedSubset
      <3>2. CASE f \notin own
        BY Zenon, <2>2, <3>2
      <3> QED BY Zenon, <3>1, <3>2
    <2>4. f.time >= Max({0, e.time - Age})
      BY SMTT(30), <1>2, <1>0, <2>1, OldestAge DEF Numbered, LaterIn
    <2>5. f \in young
      BY Zenon, <2>3, <2>4
    <2> HIDE DEF young
    <2> QED BY Zenon, <1>1, <1>0, <1>2, <1>4, <2>1, <2>5, StaysLatest
  <1> QED BY <1>0, <1>2, <1>4, <1>6, <1>7, <1>8, Zenon DEF AuditInv

LEMMA AuditStart ==
  ASSUME AuditInit
  PROVE  AuditInv
  BY SMTT(30), FS_EmptySet, AuditLimits DEF AuditInit, Of, AuditInv, Numbered

\* A step that writes no row.
LEMMA NothingWritten ==
  ASSUME AuditInv, UNCHANGED <<sequence, network_audit, history>>, wall' \in Nat
  PROVE  AuditInv'
  BY Zenon DEF MayBeGone, AuditInv

LEMMA AuditStep ==
  ASSUME AuditInv, AuditNext
  PROVE  AuditInv'
  <1>0. wall \in Nat
    BY Zenon DEF AuditInv
  <1>1. CASE uptime_passes \/ relay_restart
    BY Zenon, <1>0, <1>1, NothingWritten DEF uptime_passes, relay_restart
  <1>2. CASE wall_clock_set
    BY <1>2, NothingWritten, AuditLimits DEF wall_clock_set
  <1>3. ASSUME NEW a \in Actor, NEW n \in Group, NEW success \in BOOLEAN, audit_locked(a, n, success)
        PROVE  AuditInv'
    <2> DEFINE e == [sequence |-> sequence + 1, time |-> wall, network |-> n]
    <2> HIDE DEF e
    <2> QED BY Zenon, <1>0, RowWritten, NothingWritten, <1>3 DEF audit_locked
  <1> QED BY Zenon, <1>1, <1>2, <1>3 DEF AuditNext

\* What was audited is kept until its network, the log or its age outgrows it, an owner is
\* shown the newest of it, and the log stays within its bounds, for every bound and number
\* of networks.
THEOREM AuditKept == AuditSpec => []AuditIsKept
  <1>1. AuditInv /\ [AuditNext]_avars => AuditInv'
    <2>1. AuditInv /\ UNCHANGED avars => AuditInv'
      <3> SUFFICES ASSUME AuditInv, UNCHANGED avars PROVE AuditInv'
        BY Zenon
      <3> QED BY Zenon, NothingWritten DEF AuditInv, avars
    <2> QED BY Zenon, <2>1, AuditStep
  <1> QED BY <1>1, AuditStart, KeptByInv, PTL DEF AuditSpec
=============================================================================
