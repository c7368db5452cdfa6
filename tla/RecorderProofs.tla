---------------------------- MODULE RecorderProofs ----------------------------
(***************************************************************************)
(* The recorder, for every limit, budget and number of failing writes: the *)
(* files hold what was recorded, none exceeds its limits, connections are  *)
(* marked apart, and nothing of run() is left when it returns.             *)
(***************************************************************************)
EXTENDS Recorder, FoldLemmas

-------------------------------------------------------------------------------
(***************************************************************************)
(* The writer.                                                             *)
(***************************************************************************)
Events == [kind : Kinds, reconnects : 0..MaxReconnects + 1]
Writers ==
  [files : Seq(Seq(Events)), open : BOOLEAN, index : Nat, events : Nat, bytes : Nat,
   total : Nat, flushed : Nat]

FileKeepsLimits(file) ==
  /\ RotateEvents > 0 => Len(file) <= RotateEvents
  /\ RotateBytes > 0 => FileBytes(file) <= RotateBytes \/ Len(file) = 1

(* A file is open exactly if it is the last one: its counters count what   *)
(* it holds, or more, and what is not flushed is in it.                    *)
WriterInv(w) ==
  /\ w \in Writers
  /\ Len(w.files) \in {w.index, w.index + 1}
  /\ w.open => /\ Len(w.files) = w.index + 1
               /\ w.events >= Len(w.files[w.index + 1])
               /\ w.bytes >= FileBytes(w.files[w.index + 1])
               /\ Unflushed(w) <= Len(w.files[w.index + 1])
  /\ w.flushed <= Len(OnDisk(w)) /\ (~w.open => w.flushed = Len(OnDisk(w)))
  /\ \A i \in 1..Len(w.files) : FileKeepsLimits(w.files[i])
Ready(w) == WriterInv(w) /\ (~w.open => Len(w.files) = w.index)

(* An event of a known kind is at least a byte long. *)
LEMMA EventBytes ==
  ASSUME NEW e \in Events
  PROVE  Bytes[e.kind] \in Nat
BY WriterAssumption, RecorderAssumption DEF Events

(* An empty file has no bytes. *)
LEMMA NoBytes == FileBytes(<<>>) = 0
<1>1. DOMAIN [n \in DOMAIN <<>> |-> Bytes[<<>>[n].kind]] = {}
  OBVIOUS
<1>. QED BY <1>1, SumEmpty, Zenon DEF FileBytes, SumFunction

(* Bytes are counted in natural numbers. *)
LEMMA BytesType ==
  ASSUME NEW file \in Seq(Events)
  PROVE  FileBytes(file) \in Nat
<1> DEFINE f == [i \in DOMAIN file |-> Bytes[file[i].kind]]
<1>1. \A i \in 1..Len(file) : f[i] \in Nat
  BY EventBytes
<1>2. IsFiniteSet(1..Len(file)) /\ DOMAIN f = 1..Len(file)
  BY FS_Interval
<1>3. FileBytes(file) = SumFunctionOnSet(f, 1..Len(file))
  BY <1>2, Zenon DEF FileBytes, SumFunction
<1>. HIDE DEF f
<1>. QED BY <1>1, <1>2, <1>3, SumNat

(* One event more is its bytes more. *)
LEMMA BytesAppend ==
  ASSUME NEW file \in Seq(Events), NEW e \in Events
  PROVE  FileBytes(Append(file, e)) = FileBytes(file) + Bytes[e.kind]
<1> DEFINE n == Len(file)
           more == Append(file, e)
           f == [i \in DOMAIN file |-> Bytes[file[i].kind]]
           g == [i \in DOMAIN more |-> Bytes[more[i].kind]]
<1>1. /\ n \in Nat /\ DOMAIN file = 1..n /\ DOMAIN more = 1..n + 1
      /\ more[n + 1] = e /\ \A i \in 1..n : more[i] = file[i] /\ file[i] \in Events
  OBVIOUS
<1>2. \A i \in 1..n : f[i] \in Int /\ g[i] = f[i]
  BY <1>1, EventBytes
<1>3. g[n + 1] = Bytes[e.kind] /\ g[n + 1] \in Int
  BY <1>1, EventBytes
<1>4. DOMAIN f = 1..n /\ DOMAIN g = 1..n + 1
  BY <1>1
<1>5. FileBytes(file) = SumFunctionOnSet(f, 1..n) /\ FileBytes(more) = SumFunctionOnSet(g, 1..n + 1)
  BY <1>4, Zenon DEF FileBytes, SumFunction
<1>. HIDE DEF f, g, n
<1>6. SumFunctionOnSet(g, 1..n + 1) = SumFunctionOnSet(f, 1..n) + g[n + 1]
  BY <1>1, <1>2, <1>3, SumAppend
<1>. QED BY <1>3, <1>5, <1>6, Zenon

(* A file cut short has no more bytes than it had. *)
LEMMA BytesCut ==
  ASSUME NEW file \in Seq(Events), NEW m \in 0..Len(file)
  PROVE  FileBytes(SubSeq(file, 1, m)) <= FileBytes(file)
<1>n. PICK n \in Nat : n = Len(file)
  OBVIOUS
<1> DEFINE T == {k \in Nat : k <= n => FileBytes(SubSeq(file, 1, n - k)) <= FileBytes(file)}
<1>1. 0 \in T
  <2>1. SubSeq(file, 1, n - 0) = file
    BY <1>n
  <2>2. FileBytes(file) <= FileBytes(file)
    BY BytesType
  <2>. QED BY <2>1, <2>2
<1>2. ASSUME NEW k \in Nat, k \in T
      PROVE  k + 1 \in T
  <2> SUFFICES ASSUME k + 1 <= n
               PROVE  FileBytes(SubSeq(file, 1, n - (k + 1))) <= FileBytes(file)
    OBVIOUS
  <2>p. PICK p \in Nat : p = n - (k + 1)
    OBVIOUS
  <2>1. /\ p + 1 <= n /\ n - k = p + 1 /\ p + 1 \in 1..Len(file)
    BY <1>n, <2>p
  <2>2. FileBytes(SubSeq(file, 1, p + 1)) <= FileBytes(file)
    BY <1>2, <2>1
  <2>3. /\ SubSeq(file, 1, p) \in Seq(Events) /\ file[p + 1] \in Events
        /\ SubSeq(file, 1, p + 1) = Append(SubSeq(file, 1, p), file[p + 1])
    BY <2>1
  <2>4. FileBytes(SubSeq(file, 1, p + 1)) = FileBytes(SubSeq(file, 1, p)) + Bytes[file[p + 1].kind]
    BY <2>3, BytesAppend
  <2>5. /\ FileBytes(SubSeq(file, 1, p)) \in Nat /\ Bytes[file[p + 1].kind] \in Nat /\ FileBytes(file) \in Nat
    BY <2>3, BytesType, EventBytes
  <2>. QED BY <2>2, <2>4, <2>5, <2>p
<1>3. \A k \in Nat : k \in T
  <2>. HIDE DEF T
  <2>. QED BY <1>1, <1>2, NatInduct
<1>4. PICK k \in Nat : k <= n /\ n - k = m
  <2>1. m \in 0..n
    BY <1>n, Zenon
  <2>2. n - m \in Nat /\ n - m <= n /\ n - (n - m) = m
    BY <2>1
  <2>. QED BY <2>2
<1>. QED BY <1>3, <1>4

(* A file cut short keeps its limits. *)
LEMMA CutKeepsLimits ==
  ASSUME NEW file \in Seq(Events), NEW m \in 0..Len(file), FileKeepsLimits(file)
  PROVE  FileKeepsLimits(SubSeq(file, 1, m))
<1>c. PICK c : c = SubSeq(file, 1, m)
  OBVIOUS
<1>1. c \in Seq(Events) /\ Len(c) = m /\ FileBytes(c) <= FileBytes(file)
  BY <1>c, CutShort, BytesCut
<1>2. FileBytes(c) \in Nat /\ FileBytes(file) \in Nat /\ Len(file) \in Nat
  BY <1>1, BytesType
<1>3. m = 0 => FileBytes(c) = 0
  <2>1. m = 0 => c = <<>>
    BY <1>1
  <2>. QED BY <2>1, NoBytes
<1>4. FileKeepsLimits(c)
  <2>1. PICK a \in Nat, b \in Nat, d \in Nat : a = FileBytes(c) /\ b = FileBytes(file) /\ d = Len(file)
    BY <1>2
  <2>2. a <= b /\ m <= d /\ (m = 0 => a = 0) /\ m \in Nat
    BY <1>1, <1>3, <2>1
  <2>3. /\ RotateEvents > 0 => d <= RotateEvents
        /\ RotateBytes > 0 => b <= RotateBytes \/ d = 1
    BY <2>1, Zenon DEF FileKeepsLimits
  <2>4. /\ RotateEvents > 0 => m <= RotateEvents
        /\ RotateBytes > 0 => a <= RotateBytes \/ m = 1
    BY ONLY <2>1, <2>2, <2>3, WriterAssumption
  <2>. QED BY <1>1, <2>1, <2>4, Zenon DEF FileKeepsLimits
<1>. QED BY <1>4, <1>c

(* The content of a writer. *)
LEMMA DiskType ==
  ASSUME NEW w \in Writers
  PROVE  OnDisk(w) \in Seq(Events) /\ Len(OnDisk(w)) \in Nat
<1>1. w.files \in Seq(Seq(Events))
  BY DEF Writers
<1>2. OnDisk(w) \in Seq(Events)
  BY <1>1, FlattenType DEF OnDisk
<1>. QED BY <1>2

(* Opening a writer: the same content, and a file that is open. *)
LEMMA OpenedWriter ==
  ASSUME NEW w, Ready(w)
  PROVE  /\ Ready(Opened(w)) /\ Opened(w).open
         /\ OnDisk(Opened(w)) = OnDisk(w)
         /\ Opened(w).total = w.total /\ Opened(w).flushed = w.flushed
         /\ ~w.open => Opened(w).events = 0
<1>1. CASE w.open
  BY <1>1 DEF Opened
<1>2. CASE ~w.open
  <2> DEFINE o == [w EXCEPT !.open = TRUE, !.events = 0, !.bytes = 0, !.files = Append(w.files, <<>>)]
  <2>1. w \in Writers /\ Len(w.files) = w.index
    BY <1>2 DEF Ready, WriterInv
  <2>2. /\ w.files \in Seq(Seq(Events)) /\ w.index \in Nat /\ <<>> \in Seq(Events)
        /\ Append(w.files, <<>>) \in Seq(Seq(Events)) /\ Opened(w) = o
    <3>1. ~ (w.index < Len(w.files))
      BY <2>1 DEF Writers
    <3>2. Opened(w) = o
      BY <1>2, <2>1, <3>1 DEF Opened, Writers
    <3>3. w.files \in Seq(Seq(Events)) /\ w.index \in Nat
      BY <2>1 DEF Writers
    <3>. QED BY <3>2, <3>3
  <2>. HIDE DEF o
  <2>3. /\ o \in Writers /\ o.open /\ o.events = 0 /\ o.bytes = 0 /\ o.index = w.index
        /\ o.total = w.total /\ o.flushed = w.flushed
        /\ o.files = Append(w.files, <<>>)
    BY <2>1, <2>2 DEF Writers, o
  <2>4. Len(o.files) = o.index + 1 /\ o.files[o.index + 1] = <<>>
    BY <2>1, <2>2, <2>3
  <2>5. \A i \in 1..Len(o.files) : FileKeepsLimits(o.files[i])
    <3> SUFFICES ASSUME NEW i \in 1..Len(o.files)
                 PROVE  FileKeepsLimits(o.files[i])
      OBVIOUS
    <3>1. CASE i = o.index + 1
      BY <2>4, <3>1, NoBytes, WriterAssumption DEF FileKeepsLimits
    <3>2. CASE i \in 1..Len(w.files)
      <4>1. o.files[i] = w.files[i]
        BY <2>2, <2>3, <3>2
      <4>. QED BY <3>2, <4>1 DEF Ready, WriterInv
    <3>. QED BY <2>1, <2>2, <2>3, <2>4, <3>1, <3>2
  <2>6. OnDisk(o) = OnDisk(w)
    <3>1. FlattenSeq(Append(w.files, <<>>)) = FlattenSeq(w.files) \o <<>>
      BY <2>2, FlattenAppend
    <3>2. FlattenSeq(w.files) \in Seq(Events)
      BY <2>2, FlattenType
    <3>3. FlattenSeq(w.files) \o <<>> = FlattenSeq(w.files)
      BY <3>2, ConcatEmptySeq
    <3>. QED BY <2>3, <3>1, <3>3, Zenon DEF OnDisk
  <2>7. Ready(o)
    <3>1. w.flushed = Len(OnDisk(w)) /\ Len(OnDisk(w)) \in Nat
      BY <1>2, <2>1, DiskType DEF Ready, WriterInv
    <3>2. o.flushed = Len(OnDisk(o)) /\ Unflushed(o) = 0
      BY <2>3, <2>6, <3>1 DEF Unflushed
    <3>3. o.events >= 0 /\ o.bytes >= FileBytes(<<>>) /\ Len(<<>>) = 0
      BY <2>3, NoBytes
    <3>. QED BY <2>1, <2>3, <2>4, <2>5, <3>1, <3>2, <3>3 DEF Ready, WriterInv
  <2>. QED BY <1>2, <2>2, <2>3, <2>6, <2>7
<1>. QED BY <1>1, <1>2

(* Closing a writer: the same content, all of it out of the buffer. *)
LEMMA ClosedWriter ==
  ASSUME NEW w, WriterInv(w)
  PROVE  /\ WriterInv(Closed(w)) /\ ~Closed(w).open /\ OnDisk(Closed(w)) = OnDisk(w)
         /\ Closed(w).total = w.total /\ Closed(w).flushed = Len(OnDisk(w))
         /\ Closed(w).files = w.files /\ Closed(w).index = w.index
<1>n. PICK n \in Nat : n = Len(OnDisk(w))
  BY DiskType DEF WriterInv
<1>c. PICK c : c = [w EXCEPT !.open = FALSE, !.flushed = n]
  OBVIOUS
<1>1. /\ c \in Writers /\ ~c.open /\ c.files = w.files /\ c.index = w.index /\ c.total = w.total
      /\ c.flushed = n
  BY <1>c DEF WriterInv, Writers
<1>2. OnDisk(c) = OnDisk(w)
  BY <1>1 DEF OnDisk
<1>3. WriterInv(c)
  BY <1>1, <1>2, <1>n DEF WriterInv
<1>4. Closed(w) = c
  BY <1>c, <1>n DEF Closed
<1>. QED BY <1>1, <1>2, <1>3, <1>4, <1>n

(* The writer between two files, the old one closed. *)
LEMMA NextWriter ==
  ASSUME NEW w, Ready(w), w.open
  PROVE  LET n == [Closed(w) EXCEPT !.index = @ + 1]
         IN  /\ Ready(n) /\ ~n.open /\ OnDisk(n) = OnDisk(w)
             /\ n.total = w.total /\ n.flushed = Len(OnDisk(w))
<1>c. PICK c : c = Closed(w)
  OBVIOUS
<1>0. /\ w \in Writers /\ WriterInv(c) /\ c \in Writers /\ ~c.open /\ c.files = w.files /\ c.index = w.index
      /\ c.total = w.total /\ c.flushed = Len(OnDisk(w)) /\ OnDisk(c) = OnDisk(w)
  BY <1>c, ClosedWriter DEF Ready, WriterInv
<1>n. PICK n : n = [c EXCEPT !.index = @ + 1]
  OBVIOUS
<1>1. /\ n \in Writers /\ ~n.open /\ n.files = w.files /\ n.index = w.index + 1
      /\ n.total = w.total /\ n.flushed = Len(OnDisk(w))
  BY <1>0, <1>n DEF Writers
<1>2. OnDisk(n) = OnDisk(w)
  BY <1>1 DEF OnDisk
<1>3. Ready(n)
  <2>1. Len(w.files) = w.index + 1 /\ \A i \in 1..Len(w.files) : FileKeepsLimits(w.files[i])
    BY DEF Ready, WriterInv
  <2>2. n.flushed <= Len(OnDisk(n)) /\ n.flushed = Len(OnDisk(n))
    BY <1>0, <1>1, <1>2, DiskType
  <2>. QED BY <1>1, <2>1, <2>2 DEF Ready, WriterInv
<1>. QED BY <1>c, <1>n, <1>1, <1>2, <1>3

(* Before an event is appended, the file has room for it or is empty. *)
HasRoom(w, e) ==
  w.events > 0 => /\ RotateEvents > 0 => w.events < RotateEvents
                  /\ RotateBytes > 0 => w.bytes + Bytes[e.kind] <= RotateBytes
LEMMA ReadyForWriter ==
  ASSUME NEW w, Ready(w), NEW e \in Events
  PROVE  LET r == ReadyFor(w, e)
         IN  /\ Ready(r) /\ r.open /\ HasRoom(r, e) /\ OnDisk(r) = OnDisk(w)
             /\ r.total = w.total /\ r.flushed \in {w.flushed, Len(OnDisk(w))}
<1>o. PICK o : o = Opened(w)
  OBVIOUS
<1>1. /\ Ready(o) /\ o.open /\ OnDisk(o) = OnDisk(w)
      /\ o.total = w.total /\ o.flushed = w.flushed
  BY <1>o, OpenedWriter
<1>2. o \in Writers
  BY <1>1 DEF Ready, WriterInv
<1>3. CASE ~MustRotate(o, Bytes[e.kind])
  <2>1. ReadyFor(w, e) = o
    BY <1>o, <1>3 DEF ReadyFor
  <2>2. HasRoom(o, e)
    BY <1>2, <1>3, EventBytes, WriterAssumption DEF MustRotate, HasRoom, Writers
  <2>. QED BY <1>1, <2>1, <2>2
<1>4. CASE MustRotate(o, Bytes[e.kind])
  <2>n. PICK n : n = [Closed(o) EXCEPT !.index = @ + 1]
    OBVIOUS
  <2>1. /\ Ready(n) /\ ~n.open /\ OnDisk(n) = OnDisk(o) /\ n.total = o.total /\ n.flushed = Len(OnDisk(o))
    BY <1>1, <2>n, NextWriter
  <2>r. PICK r : r = Opened(n)
    OBVIOUS
  <2>2. /\ Ready(r) /\ r.open /\ OnDisk(r) = OnDisk(n) /\ r.total = n.total /\ r.flushed = n.flushed
        /\ r.events = 0
    BY <2>1, <2>r, OpenedWriter
  <2>3. ReadyFor(w, e) = r
    BY <1>o, <1>4, <2>n, <2>r DEF ReadyFor, Rotated
  <2>4. HasRoom(r, e)
    BY <2>2 DEF HasRoom
  <2>. QED BY <1>1, <2>1, <2>2, <2>3, <2>4
<1>. QED BY <1>3, <1>4

(* Appending to an open file with room keeps its limits. *)
LEMMA AppendedWriter ==
  ASSUME NEW w, Ready(w), w.open, NEW e \in Events, HasRoom(w, e)
  PROVE  LET a == Appended(w, e)
         IN  /\ Ready(a) /\ a.open /\ OnDisk(a) = Append(OnDisk(w), e)
             /\ a.total = w.total + 1 /\ a.flushed = w.flushed /\ a.index = w.index
<1>n. PICK n : n = w.index
  OBVIOUS
<1>l. PICK l : l = w.files[n + 1]
  OBVIOUS
<1>t. /\ w \in Writers /\ n \in Nat /\ w.files \in Seq(Seq(Events)) /\ Len(w.files) = n + 1
      /\ w.events >= Len(l) /\ w.bytes >= FileBytes(l) /\ Unflushed(w) <= Len(l)
      /\ w.flushed <= Len(OnDisk(w)) /\ w.flushed \in Nat
      /\ w.bytes \in Nat /\ w.total \in Nat /\ w.events \in Nat
  BY <1>n, <1>l DEF Ready, WriterInv, Writers
<1>1. /\ w \in Writers /\ n \in Nat /\ w.files \in Seq(Seq(Events)) /\ Len(w.files) = n + 1
      /\ l \in Seq(Events) /\ w.bytes \in Nat /\ w.total \in Nat /\ w.events \in Nat
      /\ Bytes[e.kind] \in Nat /\ Append(l, e) \in Seq(Events)
  <2>1. l \in Seq(Events)
    BY <1>t, <1>l
  <2>. QED BY <1>t, <2>1, EventBytes
<1>p. PICK k \in Nat, c \in Nat, z \in Nat, f \in Nat, v \in Nat, b \in Nat, size \in Nat :
        /\ k = Len(l) /\ c = FileBytes(l) /\ z = Len(OnDisk(w)) /\ f = w.flushed
        /\ v = w.events /\ b = w.bytes /\ size = Bytes[e.kind]
  <2>1. Len(l) \in Nat /\ FileBytes(l) \in Nat /\ Len(OnDisk(w)) \in Nat
    BY <1>1, BytesType, DiskType
  <2>. QED BY <1>1, <1>t, <2>1, Zenon
<1>q. v >= k /\ b >= c /\ z - f <= k /\ f <= z
  BY <1>t, <1>p DEF Unflushed
<1>f. PICK files : files = [w.files EXCEPT ![n + 1] = Append(@, e)]
  OBVIOUS
<1>2. /\ files \in Seq(Seq(Events)) /\ Len(files) = n + 1 /\ files[n + 1] = Append(l, e)
      /\ \A i \in 1..n : files[i] = w.files[i]
  BY <1>1, <1>f, <1>l
<1>a. PICK a : a = Appended(w, e)
  OBVIOUS
<1>3. a = [w EXCEPT !.files = files, !.total = w.total + 1, !.events = w.events + 1,
                    !.bytes = w.bytes + Bytes[e.kind]]
  BY <1>1, <1>a, <1>f, <1>n DEF Appended, Writers
<1>4. /\ a.files = files /\ a.total = w.total + 1 /\ a.events = w.events + 1
      /\ a.bytes = w.bytes + Bytes[e.kind] /\ a.open = w.open /\ a.index = n /\ a.flushed = w.flushed
  BY <1>1, <1>3, <1>n DEF Writers
<1>5. a \in Writers
  <2>t. PICK x \in Nat, y \in Nat, o \in Nat :
          x = w.total + 1 /\ y = w.events + 1 /\ o = w.bytes + Bytes[e.kind]
    <3>1. w.total + 1 \in Nat /\ w.events + 1 \in Nat /\ w.bytes + Bytes[e.kind] \in Nat
      BY <1>1
    <3>. QED BY <3>1, Zenon
  <2>1. a = [w EXCEPT !.files = files, !.total = x, !.events = y, !.bytes = o]
    BY <1>3, <2>t
  <2>. QED BY <1>1, <1>2, <2>1 DEF Writers
<1>6. Len(files[n + 1]) = k + 1 /\ FileBytes(files[n + 1]) = c + size
  <2>1. Len(Append(l, e)) = Len(l) + 1
    BY <1>1
  <2>2. FileBytes(Append(l, e)) = FileBytes(l) + Bytes[e.kind]
    BY <1>1, BytesAppend
  <2>. QED BY <1>2, <1>p, <2>1, <2>2, Zenon
<1>7. \A i \in 1..Len(files) : FileKeepsLimits(files[i])
  <2>1. FileKeepsLimits(files[n + 1])
    <3>1. v > 0 => /\ RotateEvents > 0 => v < RotateEvents
                   /\ RotateBytes > 0 => b + size <= RotateBytes
      BY <1>p, Zenon DEF HasRoom
    <3>. QED BY ONLY <1>p, <1>q, <1>6, <3>1, WriterAssumption DEF FileKeepsLimits
  <2>2. \A i \in 1..n : FileKeepsLimits(files[i])
    BY <1>1, <1>2 DEF Ready, WriterInv
  <2>3. \A i \in 1..n + 1 : i = n + 1 \/ i \in 1..n
    BY <1>1
  <2>4. 1..Len(files) = 1..n + 1
    BY <1>2
  <2>. QED BY <2>1, <2>2, <2>3, <2>4, Zenon
<1>8. OnDisk(a) = Append(OnDisk(w), e)
  <2>1. FlattenSeq(files) = Append(FlattenSeq(w.files), e)
    <3>1. /\ w.files \in Seq(Seq(Events)) /\ files \in Seq(Seq(Events)) /\ n \in Nat /\ e \in Events
          /\ Len(w.files) = n + 1 /\ Len(files) = n + 1
          /\ files[n + 1] = Append(w.files[n + 1], e) /\ \A i \in 1..n : files[i] = w.files[i]
      BY <1>1, <1>2, <1>l
    <3>2. PICK seqs : seqs = w.files
      OBVIOUS
    <3>3. /\ seqs \in Seq(Seq(Events)) /\ files \in Seq(Seq(Events)) /\ n \in Nat /\ e \in Events
          /\ Len(seqs) = n + 1 /\ Len(files) = n + 1 /\ files[n + 1] = Append(seqs[n + 1], e)
          /\ \A i \in 1..n : files[i] = seqs[i]
      BY <3>1, <3>2, Zenon
    <3>4. FlattenSeq(files) = Append(FlattenSeq(seqs), e)
      BY ONLY <3>3, FlattenGrow, SMTT(60)
    <3>. QED BY <3>2, <3>4, Zenon
  <2>. QED BY <1>4, <2>1, Zenon DEF OnDisk
<1>9. Ready(a)
  <2>1. OnDisk(w) \in Seq(Events)
    BY <1>1, DiskType
  <2>2. Len(OnDisk(a)) = Len(OnDisk(w)) + 1
    BY <1>8, <2>1
  <2>3. Len(OnDisk(a)) = z + 1 /\ a.flushed = f /\ a.events = v + 1 /\ a.bytes = b + size
    BY <1>4, <1>p, <2>2, Zenon
  <2>4. a.flushed <= Len(OnDisk(a)) /\ Unflushed(a) <= Len(files[n + 1])
    BY ONLY <1>p, <1>q, <1>6, <2>3 DEF Unflushed
  <2>5. a.events >= Len(files[n + 1]) /\ a.bytes >= FileBytes(files[n + 1])
    <3>1. k \in Nat /\ c \in Nat /\ v \in Nat /\ b \in Nat /\ size \in Nat
      BY <1>p, Zenon
    <3>. QED BY ONLY <1>q, <1>6, <2>3, <3>1
  <2>6. a.open
    BY <1>4
  <2>. QED BY <1>2, <1>4, <1>5, <1>7, <2>4, <2>5, <2>6, Zenon DEF Ready, WriterInv
<1>. QED BY <1>4, <1>8, <1>9, <1>a, <1>n

(* A buffer that fails: the content is cut short, at most to what is       *)
(* flushed.                                                                *)
LEMMA DroppedWriter ==
  ASSUME NEW w, Ready(w), w.open, NEW v \in BufferFails(w)
  PROVE  /\ Ready(v) /\ v.open /\ v.total = w.total /\ v.flushed = w.flushed
         /\ \E m \in w.flushed..Len(OnDisk(w)) : OnDisk(v) = SubSeq(OnDisk(w), 1, m)
<1>n. PICK n : n = w.index
  OBVIOUS
<1>l. PICK l : l = w.files[n + 1]
  OBVIOUS
<1>1. /\ w \in Writers /\ n \in Nat /\ w.files \in Seq(Seq(Events)) /\ Len(w.files) = n + 1
      /\ w.events >= Len(l) /\ w.bytes >= FileBytes(l) /\ Unflushed(w) <= Len(l)
      /\ w.flushed <= Len(OnDisk(w)) /\ w.flushed \in Nat /\ w.events \in Nat /\ w.bytes \in Nat
  BY <1>n, <1>l DEF Ready, WriterInv, Writers
<1>2. l \in Seq(Events)
  BY <1>1, <1>l
<1>3. FileBytes(l) \in Nat /\ Len(OnDisk(w)) \in Nat /\ OnDisk(w) \in Seq(Events) /\ Len(l) \in Nat
  BY <1>1, <1>2, BytesType, DiskType
<1>d. PICK d \in 0..Unflushed(w) : v = Dropped(w, d)
  BY DEF BufferFails
<1>4. PICK k \in Nat, f \in Nat, z \in Nat : k = Len(l) /\ f = w.flushed /\ z = Len(OnDisk(w))
  BY <1>1, <1>3
<1>5. d \in 0..k /\ d \in 0..z - f
  BY <1>1, <1>4, <1>d DEF Unflushed
<1>c. PICK c : c = SubSeq(l, 1, k - d)
  OBVIOUS
<1>6. /\ c \in Seq(Events) /\ Len(c) = k - d /\ FileBytes(c) <= FileBytes(l)
      /\ (FileKeepsLimits(l) => FileKeepsLimits(c))
  <2>1. PICK m \in 0..Len(l) : m = k - d
    BY <1>4, <1>5
  <2>. QED BY <1>2, <1>c, <2>1, CutShort, BytesCut, CutKeepsLimits
<1>f. PICK files : files = [w.files EXCEPT ![n + 1] = c]
  OBVIOUS
<1>7. /\ files \in Seq(Seq(Events)) /\ Len(files) = n + 1 /\ files[n + 1] = c
      /\ \A i \in 1..n : files[i] = w.files[i]
  BY <1>1, <1>6, <1>f
<1>8. v = [w EXCEPT !.files = files]
  BY <1>1, <1>4, <1>c, <1>d, <1>f, <1>l, <1>n DEF Dropped, Writers
<1>9. /\ v.files = files /\ v.total = w.total /\ v.events = w.events /\ v.bytes = w.bytes
      /\ v.open /\ v.index = n /\ v.flushed = w.flushed /\ v \in Writers
  BY <1>1, <1>7, <1>8, <1>n DEF Writers
<1>10. OnDisk(v) = SubSeq(OnDisk(w), 1, z - d)
  <2>1. d \in 0..Len(w.files[n + 1]) /\ files[n + 1] = SubSeq(w.files[n + 1], 1, Len(w.files[n + 1]) - d)
    BY <1>4, <1>5, <1>7, <1>c, <1>l, Zenon
  <2>2. FlattenSeq(files) = SubSeq(FlattenSeq(w.files), 1, Len(FlattenSeq(w.files)) - d)
    <3>1. /\ w.files \in Seq(Seq(Events)) /\ files \in Seq(Seq(Events)) /\ n \in Nat
          /\ Len(w.files) = n + 1 /\ Len(files) = n + 1
          /\ \A i \in 1..n : files[i] = w.files[i]
      BY <1>1, <1>7, Zenon
    <3>2. PICK seqs : seqs = w.files
      OBVIOUS
    <3>3. /\ seqs \in Seq(Seq(Events)) /\ files \in Seq(Seq(Events)) /\ n \in Nat
          /\ Len(seqs) = n + 1 /\ Len(files) = n + 1 /\ \A i \in 1..n : files[i] = seqs[i]
          /\ d \in 0..Len(seqs[n + 1]) /\ files[n + 1] = SubSeq(seqs[n + 1], 1, Len(seqs[n + 1]) - d)
      BY <2>1, <3>1, <3>2, Zenon
    <3>4. FlattenSeq(files) = SubSeq(FlattenSeq(seqs), 1, Len(FlattenSeq(seqs)) - d)
      BY ONLY <3>3, FlattenCut
    <3>. QED BY <3>2, <3>4, Zenon
  <2>. QED BY <1>4, <1>9, <2>2, Zenon DEF OnDisk
<1>m. PICK m \in w.flushed..Len(OnDisk(w)) : m = z - d /\ m \in 0..Len(OnDisk(w)) /\ m >= f
  <2>1. z - d \in f..z /\ z - d \in 0..z /\ z - d >= f
    BY ONLY <1>4, <1>5
  <2>. QED BY <1>4, <2>1, Zenon
<1>11. Len(OnDisk(v)) = m
  BY <1>3, <1>10, <1>m, CutShort
<1>12. Ready(v)
  <2>1. v.flushed <= Len(OnDisk(v)) /\ Unflushed(v) <= Len(files[n + 1])
    <3>1. z - f <= k
      BY <1>1, <1>4 DEF Unflushed
    <3>2. Len(files[n + 1]) = k - d
      BY <1>6, <1>7
    <3>3. Unflushed(v) = m - f
      BY <1>4, <1>9, <1>11 DEF Unflushed
    <3>. QED BY <1>4, <1>5, <1>9, <1>11, <1>m, <3>1, <3>2, <3>3
  <2>2. v.events >= Len(files[n + 1]) /\ v.bytes >= FileBytes(files[n + 1])
    <3>1. FileBytes(c) \in Nat
      BY <1>6, BytesType
    <3>2. PICK b \in Nat, a \in Nat, v1 \in Nat, b1 \in Nat :
            b = FileBytes(l) /\ a = FileBytes(c) /\ v1 = v.events /\ b1 = v.bytes
      BY <1>1, <1>3, <1>9, <3>1, Zenon
    <3>3. v1 >= k /\ b1 >= b /\ a <= b
      BY <1>1, <1>4, <1>6, <1>9, <3>2, Zenon
    <3>4. Len(files[n + 1]) = k - d /\ FileBytes(files[n + 1]) = a
      BY <1>6, <1>7, <3>2, Zenon
    <3>. QED BY ONLY <1>4, <1>5, <3>2, <3>3, <3>4
  <2>3. \A i \in 1..Len(files) : FileKeepsLimits(files[i])
    <3>1. \A i \in 1..n + 1 : FileKeepsLimits(w.files[i])
      BY <1>1 DEF Ready, WriterInv
    <3>2. n + 1 \in 1..n + 1 /\ \A i \in 1..n + 1 : i = n + 1 \/ i \in 1..n
      BY <1>1
    <3>3. FileKeepsLimits(files[n + 1])
      BY <1>6, <1>7, <1>l, <3>1, <3>2, Zenon
    <3>4. \A i \in 1..n + 1 : FileKeepsLimits(files[i])
      <4> TAKE i \in 1..n + 1
      <4>1. CASE i = n + 1
        BY <3>3, <4>1
      <4>2. CASE i \in 1..n
        BY <1>7, <3>1, <4>2, Zenon
      <4>. QED BY <3>2, <4>1, <4>2
    <3>. QED BY <1>7, <3>4, Zenon
  <2>. QED BY <1>7, <1>9, <2>1, <2>2, <2>3, Zenon DEF Ready, WriterInv
<1>. QED BY <1>9, <1>10, <1>12, <1>m, Zenon


(***************************************************************************)
(* Of n events, what is not on the disk: less than a flush interval, and   *)
(* one more for each failure.  What is not in the files either: no more    *)
(* than the latter.  What is not counted: no more than the failures.       *)
(***************************************************************************)
TailInv(n, w, failed) ==
  /\ w.total <= n /\ n - w.total <= failed
  /\ n - Len(OnDisk(w)) <= FlushEvery * failed
  /\ n - w.flushed <= (w.total % FlushEvery) + FlushEvery * failed

(* Counting up, the remainder counts up or starts again. *)
LEMMA RemainderCounts ==
  ASSUME NEW n \in Nat, NEW d \in Nat \ {0}
  PROVE  /\ n % d \in 0..d - 1
         /\ (n + 1) % d \in {0, (n % d) + 1}
<1> DEFINE T == {m \in Nat : \E q \in Nat : \E r \in 0..d - 1 : m = d * q + r}
<1>1. 0 \in T
  <2>1. 0 \in Nat /\ 0 \in 0..d - 1 /\ 0 = d * 0 + 0
    OBVIOUS
  <2>. QED BY <2>1
<1>2. ASSUME NEW m \in Nat, m \in T
      PROVE  m + 1 \in T
  <2>1. PICK q \in Nat, r \in 0..d - 1 : m = d * q + r
    BY <1>2
  <2>2. CASE r + 1 \in 0..d - 1
    <3>1. m + 1 = d * q + (r + 1)
      BY <2>1
    <3>. QED BY <2>2, <3>1
  <2>3. CASE r = d - 1
    <3>1. d * (q + 1) = d * q + d
      OBVIOUS
    <3>2. PICK p \in Nat, z \in 0..d - 1 : p = q + 1 /\ z = 0
      OBVIOUS
    <3>3. m + 1 = d * p + z
      BY <2>1, <2>3, <3>1, <3>2
    <3>. QED BY <3>3
  <2>4. r + 1 \in 0..d - 1 \/ r = d - 1
    OBVIOUS
  <2>. HIDE DEF T
  <2>. QED BY <2>2, <2>3, <2>4
<1>3. PICK q \in Nat, r \in 0..d - 1 : n = d * q + r
  <2>. HIDE DEF T
  <2>1. n \in T
    BY <1>1, <1>2, NatInduct
  <2>. QED BY <2>1 DEF T
<1>4. n % d = r
  BY <1>3, Remainder
<1>5. CASE r + 1 \in 0..d - 1
  <2>1. n + 1 = d * q + (r + 1)
    BY <1>3
  <2>2. \A k \in Nat : k = d * q + (r + 1) => k % d = r + 1
    BY <1>5, Remainder
  <2>. QED BY <1>4, <2>1, <2>2
<1>6. CASE r = d - 1
  <2>1. d * (q + 1) = d * q + d
    OBVIOUS
  <2>2. n + 1 = d * (q + 1) + 0 /\ q + 1 \in Nat /\ 0 \in 0..d - 1
    BY <1>3, <1>6, <2>1
  <2>3. \A k \in Nat : k = d * (q + 1) + 0 => k % d = 0
    BY <2>2, Remainder
  <2>. QED BY <1>4, <2>2, <2>3
<1>. QED BY <1>5, <1>6

(* A write that returns: the event is in the files, after all others. *)
LEMMA WrittenWriter ==
  ASSUME NEW w, Ready(w), NEW e \in Events, NEW n \in Nat, NEW failed \in Nat, TailInv(n, w, failed)
  PROVE  LET v == Written(w, e)
         IN  /\ Ready(v) /\ OnDisk(v) = Append(OnDisk(w), e) /\ TailInv(n + 1, v, failed)
<1>r. PICK r : r = ReadyFor(w, e)
  OBVIOUS
<1>a. PICK a : a = Appended(r, e)
  OBVIOUS
<1>v. PICK v : v = Flushed(a)
  OBVIOUS
<1>1. /\ Ready(r) /\ r.open /\ HasRoom(r, e) /\ OnDisk(r) = OnDisk(w)
      /\ r.total = w.total /\ r.flushed \in {w.flushed, Len(OnDisk(w))}
  BY <1>r, ReadyForWriter
<1>2. /\ Ready(a) /\ a.open /\ OnDisk(a) = Append(OnDisk(r), e)
      /\ a.total = r.total + 1 /\ a.flushed = r.flushed
  BY <1>1, <1>a, AppendedWriter
<1>3. a \in Writers /\ w \in Writers /\ w.flushed <= Len(OnDisk(w))
  BY <1>2 DEF Ready, WriterInv
<1>p. PICK t \in Nat, f \in Nat, z \in Nat : t = w.total /\ f = w.flushed /\ z = Len(OnDisk(w))
  <2>1. w.total \in Nat /\ w.flushed \in Nat
    BY <1>3 DEF Writers
  <2>. QED BY <1>3, <2>1, DiskType, Zenon
<1>q. Len(OnDisk(a)) = z + 1 /\ a.total = t + 1 /\ a.flushed \in {f, z} /\ f <= z
  <2>1. OnDisk(w) \in Seq(Events)
    BY <1>3, DiskType
  <2>. QED BY <1>1, <1>2, <1>3, <1>p, <2>1
<1>4. /\ v \in Writers /\ v.files = a.files /\ v.open = a.open /\ v.index = a.index /\ v.events = a.events
      /\ v.bytes = a.bytes /\ v.total = a.total
      /\ v.flushed = IF (t + 1) % FlushEvery = 0 THEN z + 1 ELSE a.flushed
  <2>1. PICK y \in Nat : y = z + 1
    BY <1>p
  <2>2. a.total = t + 1 /\ Len(OnDisk(a)) = y
    BY <1>q, <2>1
  <2>3. v = IF (t + 1) % FlushEvery = 0 THEN [a EXCEPT !.flushed = y] ELSE a
    BY <1>v, <2>2, Zenon DEF Flushed
  <2>. QED BY <1>3, <2>1, <2>3 DEF Writers
<1>5. OnDisk(v) = OnDisk(a)
  BY <1>4 DEF OnDisk
<1>6. Ready(v)
  <2>1. a.open /\ WriterInv(a) /\ a.flushed <= z + 1 /\ a.flushed \in Nat
    BY <1>2, <1>3, <1>p, <1>q DEF Ready
  <2>2. v.flushed <= Len(OnDisk(v)) /\ v.flushed >= a.flushed /\ v.flushed \in Nat
    BY <1>4, <1>5, <1>p, <1>q, <2>1
  <2>3. Unflushed(v) <= Unflushed(a)
    BY <1>5, <1>p, <1>q, <2>1, <2>2 DEF Unflushed
  <2>4. Unflushed(v) <= Len(v.files[v.index + 1])
    <3>1. Unflushed(a) <= Len(v.files[v.index + 1]) /\ v.files \in Seq(Seq(Events)) /\ v.index \in Nat
          /\ Len(v.files) = v.index + 1
      BY <1>4, <2>1 DEF WriterInv, Writers
    <3>2. v.files[v.index + 1] \in Seq(Events)
      BY <3>1
    <3>3. Len(v.files[v.index + 1]) \in Nat
      BY <3>2
    <3>4. Unflushed(a) \in Int /\ Unflushed(v) \in Int
      BY <1>5, <1>p, <1>q, <2>1, <2>2 DEF Unflushed
    <3>. QED BY <2>3, <3>1, <3>3, <3>4
  <2>. QED BY <1>4, <2>1, <2>2, <2>4 DEF Ready, WriterInv
<1>7. TailInv(n + 1, v, failed)
  <2>1. PICK c \in Nat : c = FlushEvery * failed
    BY WriterAssumption
  <2>2. t <= n /\ n - t <= failed /\ n - z <= c /\ n - f <= (t % FlushEvery) + c
    BY <1>p, <2>1 DEF TailInv
  <2>3. t % FlushEvery \in Nat /\ (t + 1) % FlushEvery \in {0, (t % FlushEvery) + 1}
    BY RemainderCounts, WriterAssumption
  <2>4. PICK x \in Nat, y \in Nat : x = t % FlushEvery /\ y = (t + 1) % FlushEvery
    BY <2>3
  <2>5. v.total = t + 1 /\ Len(OnDisk(v)) = z + 1 /\ v.flushed \in {f, z, z + 1} /\ (y = 0 => v.flushed = z + 1)
    BY <1>4, <1>5, <1>p, <1>q, <2>4
  <2>6. /\ t + 1 <= n + 1 /\ (n + 1) - (t + 1) <= failed /\ (n + 1) - (z + 1) <= c
        /\ (n + 1) - v.flushed <= y + c
    <3>1. y \in {0, x + 1}
      BY <2>3, <2>4
    <3>2. n - f <= x + c
      BY <2>2, <2>4, Zenon
    <3>. QED BY <1>q, <2>2, <2>5, <3>1, <3>2
  <2>. QED BY <2>1, <2>4, <2>5, <2>6, Zenon DEF TailInv
<1>. QED BY <1>1, <1>2, <1>5, <1>6, <1>7, <1>r, <1>a, <1>v DEF Written

(* A write that raises: the event may be in the files or not, and of what  *)
(* was not flushed the end may be gone.                                    *)
LEMMA FailedWriter ==
  ASSUME NEW w, Ready(w), NEW e \in Events, NEW v \in Failed(w, e)
  PROVE  /\ Ready(v) /\ v.total \in {w.total, w.total + 1} /\ v.flushed >= w.flushed
         /\ \E m \in v.flushed..Len(OnDisk(w)) + 1 : OnDisk(v) = SubSeq(Append(OnDisk(w), e), 1, m)
<1>w. w \in Writers /\ w.flushed <= Len(OnDisk(w))
  BY DEF Ready, WriterInv
<1>p. PICK f \in Nat, z \in Nat : f = w.flushed /\ z = Len(OnDisk(w))
  <2>1. w.flushed \in Nat
    BY <1>w DEF Writers
  <2>. QED BY <1>w, <2>1, DiskType, Zenon
<1>d. PICK disk \in Seq(Events) : disk = OnDisk(w) /\ Len(disk) = z /\ f <= z
  BY <1>w, <1>p, DiskType
<1>c. \A m \in 0..z : SubSeq(Append(disk, e), 1, m) = SubSeq(disk, 1, m)
  BY <1>d
<1>f. SubSeq(disk, 1, z) = disk
  BY <1>d
<1> DEFINE Fine(u) == /\ Ready(u) /\ u.total \in {w.total, w.total + 1} /\ u.flushed \in Nat /\ u.flushed >= f
                      /\ \E m \in u.flushed..z + 1 : OnDisk(u) = SubSeq(Append(disk, e), 1, m)
<1>g. ASSUME NEW u, Ready(u), u.total = w.total, u.flushed \in f..z,
             \E m \in u.flushed..z : OnDisk(u) = SubSeq(disk, 1, m)
      PROVE  Fine(u)
  <2>1. PICK m \in u.flushed..z : OnDisk(u) = SubSeq(disk, 1, m)
    BY <1>g
  <2>2. m \in 0..z /\ m \in u.flushed..z + 1 /\ u.flushed \in Nat /\ u.flushed >= f
    BY <1>g, <1>p
  <2>3. OnDisk(u) = SubSeq(Append(disk, e), 1, m)
    BY <1>c, <2>1, <2>2
  <2>. QED BY <1>g, <2>2, <2>3
<1>1. ASSUME v \in FailsToOpen(w, e)
      PROVE  Fine(v)
  <2>1. Ready(v) /\ v.total = w.total /\ OnDisk(v) = OnDisk(w) /\ v.flushed \in {w.flushed, Len(OnDisk(w))}
    <3>1. CASE ~w.open
      BY <1>1, <3>1 DEF FailsToOpen
    <3>2. CASE w.open
      <4>1. v = [Closed(w) EXCEPT !.index = @ + 1]
        BY <1>1, <3>2 DEF FailsToOpen
      <4>. QED BY <3>2, <4>1, NextWriter
    <3>. QED BY <3>1, <3>2
  <2>2. v.flushed \in f..z /\ z \in v.flushed..z /\ OnDisk(v) = SubSeq(disk, 1, z)
    BY <1>d, <1>f, <1>p, <2>1
  <2>. QED BY <1>g, <2>1, <2>2
<1>2. ASSUME v \in FailsToRotate(w, e)
      PROVE  Fine(v)
  <2>1. w.open /\ v \in BufferFails(w)
    BY <1>2 DEF FailsToRotate, FailsToClose
  <2>2. /\ Ready(v) /\ v.total = w.total /\ v.flushed = f
        /\ \E m \in f..z : OnDisk(v) = SubSeq(disk, 1, m)
    BY <1>d, <1>p, <2>1, DroppedWriter
  <2>3. v.flushed \in f..z
    BY <1>d, <2>2
  <2>. QED BY <1>g, <2>2, <2>3
<1>r. PICK r : r = ReadyFor(w, e)
  OBVIOUS
<1>3. /\ Ready(r) /\ r.open /\ HasRoom(r, e) /\ OnDisk(r) = disk
      /\ r.total = w.total /\ r.flushed \in {f, z}
  BY <1>d, <1>p, <1>r, ReadyForWriter
<1>4. ASSUME v \in FailsToWrite(w, e)
      PROVE  Fine(v)
  <2>1. v \in BufferFails(r)
    BY <1>4, <1>r DEF FailsToWrite
  <2>2. /\ Ready(v) /\ v.total = w.total /\ v.flushed = r.flushed
        /\ \E m \in r.flushed..z : OnDisk(v) = SubSeq(disk, 1, m)
    BY <1>3, <1>d, <2>1, DroppedWriter
  <2>3. v.flushed \in f..z
    BY <1>3, <1>d, <2>2
  <2>. QED BY <1>g, <2>2, <2>3
<1>5. ASSUME v \in FailsToFlush(w, e)
      PROVE  Fine(v)
  <2>a. PICK a : a = Appended(r, e)
    OBVIOUS
  <2>1. /\ Ready(a) /\ a.open /\ OnDisk(a) = Append(disk, e) /\ a.total = w.total + 1 /\ a.flushed = r.flushed
    BY <1>3, <2>a, AppendedWriter
  <2>2. v \in BufferFails(a)
    BY <1>5, <1>r, <2>a DEF FailsToFlush
  <2>3. Len(Append(disk, e)) = z + 1
    BY <1>d
  <2>4. /\ Ready(v) /\ v.total = w.total + 1 /\ v.flushed = r.flushed
        /\ \E m \in a.flushed..Len(OnDisk(a)) : OnDisk(v) = SubSeq(OnDisk(a), 1, m)
    BY <2>1, <2>2, DroppedWriter
  <2>5. v.flushed \in Nat /\ v.flushed >= f
    BY <1>3, <1>d, <2>4
  <2>. QED BY <2>1, <2>3, <2>4, <2>5
<1>6. Fine(v)
  <2>. HIDE DEF Fine
  <2>. QED BY <1>1, <1>2, <1>4, <1>5 DEF Failed
<1>. QED BY <1>6, <1>d, <1>p

(* A closing that raises: of what was not flushed the end may be gone. *)
LEMMA UnclosedWriter ==
  ASSUME NEW w, Ready(w), NEW v \in FailsToClose(w)
  PROVE  /\ Ready(v) /\ v.open /\ v.total = w.total /\ v.flushed = w.flushed /\ w.flushed < Len(OnDisk(w))
         /\ \E m \in w.flushed..Len(OnDisk(w)) : OnDisk(v) = SubSeq(OnDisk(w), 1, m)
<1>1. w \in Writers /\ (~w.open => w.flushed = Len(OnDisk(w))) /\ Unflushed(w) > 0 /\ v \in BufferFails(w)
  BY DEF Ready, WriterInv, FailsToClose
<1>2. w.flushed \in Nat /\ Len(OnDisk(w)) \in Nat
  BY <1>1, DiskType DEF Writers
<1>3. w.flushed < Len(OnDisk(w)) /\ w.open
  BY <1>1, <1>2 DEF Unflushed
<1>. QED BY <1>1, <1>3, DroppedWriter

-------------------------------------------------------------------------------
(***************************************************************************)
(* The files and the list: what the files hold is the list without the     *)
(* events that were lost.                                                  *)
(***************************************************************************)
Kept(es, l) == 1..Len(es) \ l
UpTo(kept, i) == {j \in kept : j <= i}
Holds(disk, es, l) ==
  /\ Len(disk) = Cardinality(Kept(es, l))
  /\ \A i \in Kept(es, l) : disk[Cardinality(UpTo(Kept(es, l), i))] = es[i]

(* The list with an event more. *)
LEMMA AppendedEvents ==
  ASSUME NEW es \in Seq(Events), NEW e \in Events
  PROVE  /\ Append(es, e) \in Seq(Events) /\ Len(es) \in Nat
         /\ Len(Append(es, e)) = Len(es) + 1 /\ Append(es, e)[Len(es) + 1] = e
         /\ \A i \in 1..Len(es) : Append(es, e)[i] = es[i] /\ es[i] \in Events /\ es[i].reconnects \in Nat
         /\ e.reconnects \in Nat
<1>1. \A x \in Events : x.reconnects \in Nat
  BY RecorderAssumption DEF Events
<1>. QED BY <1>1

(* Each number kept has its place among those kept, in their order. *)
LEMMA PlacesAreOrdered ==
  ASSUME NEW kept \in SUBSET Nat, IsFiniteSet(kept), NEW i \in kept
  PROVE  /\ Cardinality(UpTo(kept, i)) \in 1..Cardinality(kept) /\ Cardinality(kept) \in Nat
         /\ \A j \in kept : i <= j => Cardinality(UpTo(kept, i)) <= Cardinality(UpTo(kept, j))
<1>1. \A j \in kept : IsFiniteSet(UpTo(kept, j)) /\ UpTo(kept, j) \subseteq kept
  BY FS_Subset DEF UpTo
<1>2. /\ Cardinality(UpTo(kept, i)) \in Nat /\ Cardinality(kept) \in Nat
      /\ Cardinality(UpTo(kept, i)) <= Cardinality(kept)
  BY <1>1, FS_Subset, FS_CardinalityType
<1>3. Cardinality(UpTo(kept, i)) # 0
  <2>1. i \in UpTo(kept, i)
    BY DEF UpTo
  <2>. QED BY <1>1, <2>1, FS_EmptySet
<1>4. ASSUME NEW j \in kept, i <= j
      PROVE  Cardinality(UpTo(kept, i)) <= Cardinality(UpTo(kept, j))
  <2>1. UpTo(kept, i) \subseteq UpTo(kept, j)
    <3>1. \A h \in kept : h <= i => h <= j
      BY <1>4
    <3>. QED BY <3>1, Zenon DEF UpTo
  <2>. QED BY <1>1, <2>1, FS_Subset
<1>. QED BY <1>2, <1>3, <1>4

(* As many as m have a place up to m. *)
LEMMA PlacesAreCounted ==
  ASSUME NEW K \in SUBSET Nat, IsFiniteSet(K), NEW h \in 0..Cardinality(K)
  PROVE  Cardinality({i \in K : Cardinality(UpTo(K, i)) <= h}) = h
<1> DEFINE Early(s, m) == {i \in s : Cardinality(UpTo(s, i)) <= m}
           T == {n \in Nat : \A s \in SUBSET K : Cardinality(s) = n => \A m \in 0..n : Cardinality(Early(s, m)) = m}
<1>0. \A s \in SUBSET K : IsFiniteSet(s) /\ Cardinality(s) \in Nat /\ s \in SUBSET Nat
  BY FS_Subset, FS_CardinalityType
<1>1. 0 \in T
  <2> SUFFICES ASSUME NEW s \in SUBSET K, Cardinality(s) = 0, NEW m \in 0..0
               PROVE  Cardinality(Early(s, m)) = m
    OBVIOUS
  <2>1. s = {}
    BY <1>0, FS_EmptySet
  <2>2. Early(s, m) = {} /\ m = 0
    BY <2>1
  <2>. QED BY <2>2, FS_EmptySet
<1>2. ASSUME NEW n \in Nat, n \in T
      PROVE  n + 1 \in T
  <2> SUFFICES ASSUME NEW s \in SUBSET K, Cardinality(s) = n + 1, NEW m \in 0..n + 1
               PROVE  Cardinality(Early(s, m)) = m
    OBVIOUS
  <2>1. IsFiniteSet(s) /\ s \in SUBSET Nat /\ s # {}
    BY <1>0, FS_EmptySet
  <2>2. PICK x \in s : \A y \in s : x >= y
    <3>1. s \in SUBSET Int
      BY <2>1
    <3>. QED BY <2>1, <3>1, HasExtremes
  <2>r. PICK r : r = s \ {x}
    OBVIOUS
  <2>3. r \in SUBSET K /\ Cardinality(r) = n
    BY <2>1, <2>2, <2>r, OneLess
  <2>4. \A i \in r : UpTo(s, i) = UpTo(r, i)
    BY <2>1, <2>2, <2>r DEF UpTo
  <2>5. UpTo(s, x) = s
    BY <2>1, <2>2 DEF UpTo
  <2>6. CASE m \in 0..n
    <3>1. Early(s, m) = Early(r, m)
      <4>1. \A i \in s : i \in r \/ i = x
        BY <2>r
      <4>2. ~(Cardinality(UpTo(s, x)) <= m)
        BY <2>5, <2>6
      <4>. QED BY <2>4, <2>r, <4>1, <4>2
    <3>2. Cardinality(Early(r, m)) = m
      BY <1>2, <2>3, <2>6
    <3>. HIDE DEF Early
    <3>. QED BY <3>1, <3>2
  <2>7. CASE m = n + 1
    <3>1. \A i \in s : Cardinality(UpTo(s, i)) \in 1..n + 1
      BY <2>1, PlacesAreOrdered
    <3>2. Early(s, m) = s
      <4>1. \A i \in s : Cardinality(UpTo(s, i)) <= m
        BY <2>7, <3>1
      <4>. QED BY <4>1, Zenon
    <3>. HIDE DEF Early
    <3>. QED BY <2>7, <3>2
  <2>. QED BY <2>6, <2>7
<1>3. Cardinality(K) \in T
  <2>. HIDE DEF T
  <2>1. \A n \in Nat : n \in T
    BY <1>1, <1>2, NatInduct
  <2>. QED BY <2>1, FS_CardinalityType
<1>4. Cardinality(Early(K, h)) = h
  BY <1>3
<1>. QED BY <1>4

(* Every place is taken. *)
LEMMA PlacesAreTaken ==
  ASSUME NEW kept \in SUBSET Nat, IsFiniteSet(kept), NEW m \in 1..Cardinality(kept)
  PROVE  \E i \in kept : Cardinality(UpTo(kept, i)) = m
<1> DEFINE Early(n) == {i \in kept : Cardinality(UpTo(kept, i)) <= n}
<1>1. Cardinality(kept) \in Nat
  BY FS_CardinalityType
<1>2. m \in 0..Cardinality(kept) /\ m - 1 \in 0..Cardinality(kept)
  BY <1>1
<1>3. Cardinality(Early(m)) = m
  BY <1>2, PlacesAreCounted
<1>4. Cardinality(Early(m - 1)) = m - 1
  BY <1>2, PlacesAreCounted
<1>5. PICK i \in kept : i \in Early(m) /\ i \notin Early(m - 1)
  <2>1. Early(m) # Early(m - 1)
    <3>. HIDE DEF Early
    <3>. QED BY <1>2, <1>3, <1>4
  <2>2. \A i \in kept : Cardinality(UpTo(kept, i)) \in Nat
    BY <1>1, PlacesAreOrdered
  <2>3. \A i \in kept : Cardinality(UpTo(kept, i)) <= m - 1 => Cardinality(UpTo(kept, i)) <= m
    BY <1>1, <2>2
  <2>4. Early(m - 1) \subseteq Early(m)
    BY <2>3, Zenon
  <2>5. Early(m) \subseteq kept
    BY Zenon
  <2>. HIDE DEF Early
  <2>. QED BY <2>1, <2>4, <2>5
<1>6. Cardinality(UpTo(kept, i)) \in Nat
  BY <1>1, PlacesAreOrdered
<1>. QED BY <1>5, <1>6

(* The numbers kept are finitely many natural numbers. *)
LEMMA KeptIsFinite ==
  ASSUME NEW es \in Seq(Events), NEW l \in SUBSET (1..Len(es))
  PROVE  /\ Kept(es, l) \in SUBSET Nat /\ IsFiniteSet(Kept(es, l)) /\ Cardinality(Kept(es, l)) \in Nat
         /\ IsFiniteSet(l) /\ Cardinality(Kept(es, l)) = Len(es) - Cardinality(l) /\ Cardinality(l) \in Nat
<1>n. PICK n \in Nat : n = Len(es)
  OBVIOUS
<1>1. IsFiniteSet(1..n) /\ Cardinality(1..n) = n
  BY FS_Interval
<1>2. l \in SUBSET (1..n) /\ (1..n) \cap l = l
  BY <1>n
<1>3. IsFiniteSet(l) /\ Cardinality(l) \in Nat
  BY <1>1, <1>2, FS_Subset, FS_CardinalityType
<1>4. IsFiniteSet((1..n) \ l) /\ Cardinality((1..n) \ l) = n - Cardinality(l)
  BY <1>1, <1>2, FS_Difference
<1>5. Kept(es, l) = (1..n) \ l
  BY <1>n DEF Kept
<1>6. Cardinality(Kept(es, l)) \in Nat
  BY <1>4, <1>5, FS_CardinalityType
<1>. QED BY <1>n, <1>3, <1>4, <1>5, <1>6

(* An event that is written is the last in the files as in the list. *)
LEMMA HoldsWritten ==
  ASSUME NEW disk \in Seq(Events), NEW es \in Seq(Events), NEW l \in SUBSET (1..Len(es)), Holds(disk, es, l),
         NEW e \in Events
  PROVE  Holds(Append(disk, e), Append(es, e), l)
<1>n. PICK n \in Nat : n = Len(es)
  OBVIOUS
<1>k. PICK kept : kept = Kept(es, l)
  OBVIOUS
<1>m. PICK more : more = Kept(Append(es, e), l)
  OBVIOUS
<1>1. /\ kept \subseteq 1..n /\ more = kept \cup {n + 1} /\ n + 1 \notin kept
  BY <1>n, <1>k, <1>m DEF Kept
<1>2. IsFiniteSet(kept) /\ Cardinality(kept) \in Nat /\ Cardinality(more) = Cardinality(kept) + 1
  <2>1. IsFiniteSet(1..n)
    BY FS_Interval
  <2>2. IsFiniteSet(kept)
    BY <1>1, <2>1, FS_Subset
  <2>. QED BY <1>1, <2>2, FS_AddElement, FS_CardinalityType
<1>3. Len(disk) = Cardinality(kept) /\ \A i \in kept : disk[Cardinality(UpTo(kept, i))] = es[i]
  BY <1>k DEF Holds
<1>4. ASSUME NEW i \in kept
      PROVE  Append(disk, e)[Cardinality(UpTo(more, i))] = Append(es, e)[i]
  <2>1. UpTo(more, i) = UpTo(kept, i)
    BY <1>1 DEF UpTo
  <2>2. Cardinality(UpTo(kept, i)) \in 1..Len(disk)
    <3>1. UpTo(kept, i) \subseteq kept /\ UpTo(kept, i) # {}
      BY <1>1 DEF UpTo
    <3>2. /\ IsFiniteSet(UpTo(kept, i)) /\ Cardinality(UpTo(kept, i)) \in Nat
          /\ Cardinality(UpTo(kept, i)) <= Cardinality(kept) /\ Cardinality(UpTo(kept, i)) # 0
      BY <1>2, <3>1, FS_Subset, FS_CardinalityType, FS_EmptySet
    <3>. QED BY <1>2, <1>3, <3>2
  <2>3. Append(disk, e)[Cardinality(UpTo(kept, i))] = disk[Cardinality(UpTo(kept, i))]
    BY <2>2
  <2>4. Append(es, e)[i] = es[i]
    BY <1>1, <1>n
  <2>. QED BY <1>3, <2>1, <2>3, <2>4, Zenon
<1>5. Append(disk, e)[Cardinality(UpTo(more, n + 1))] = Append(es, e)[n + 1]
  <2>1. UpTo(more, n + 1) = more
    <3>1. \A j \in more : j <= n + 1
      BY <1>1
    <3>. QED BY <3>1 DEF UpTo
  <2>2. Append(disk, e)[Len(disk) + 1] = e /\ Append(es, e)[n + 1] = e
    BY <1>n
  <2>3. Cardinality(UpTo(more, n + 1)) = Len(disk) + 1
    BY <1>2, <1>3, <2>1, Zenon
  <2>. QED BY <2>2, <2>3, Zenon
<1>6. Len(Append(disk, e)) = Cardinality(more)
  BY <1>2, <1>3
<1>7. \A i \in more : i \in kept \/ i = n + 1
  BY <1>1
<1>8. \A i \in more : Append(disk, e)[Cardinality(UpTo(more, i))] = Append(es, e)[i]
  BY <1>4, <1>5, <1>7, Zenon
<1>. QED BY <1>m, <1>6, <1>8, Zenon DEF Holds

(* What the files lose at their end, the list loses: the last of what it   *)
(* kept.                                                                   *)
Beyond(es, l, m) == {i \in Kept(es, l) : Cardinality(UpTo(Kept(es, l), i)) > m}
LEMMA HoldsCut ==
  ASSUME NEW disk \in Seq(Events), NEW es \in Seq(Events), NEW l \in SUBSET (1..Len(es)), Holds(disk, es, l),
         NEW m \in 0..Len(disk)
  PROVE  /\ l \cup Beyond(es, l, m) \in SUBSET (1..Len(es))
         /\ Holds(SubSeq(disk, 1, m), es, l \cup Beyond(es, l, m))
<1>k. PICK kept : kept = Kept(es, l)
  OBVIOUS
<1>a. PICK all : all = l \cup Beyond(es, l, m)
  OBVIOUS
<1>r. PICK rest : rest = {i \in kept : Cardinality(UpTo(kept, i)) <= m}
  OBVIOUS
<1>1. /\ kept \in SUBSET Nat /\ IsFiniteSet(kept) /\ Cardinality(kept) \in Nat
  BY <1>k, KeptIsFinite
<1>2. \A i \in kept : Cardinality(UpTo(kept, i)) \in Nat
  BY <1>1, PlacesAreOrdered
<1>3. Kept(es, all) = rest
  <2>1. \A i \in kept : Cardinality(UpTo(kept, i)) <= m <=> ~(Cardinality(UpTo(kept, i)) > m)
    BY <1>2
  <2>2. Beyond(es, l, m) = {i \in kept : Cardinality(UpTo(kept, i)) > m}
    BY <1>k, Zenon DEF Beyond
  <2>3. rest = kept \ Beyond(es, l, m)
    BY <1>r, <2>1, <2>2, Zenon
  <2>. QED BY <1>a, <1>k, <2>3, Zenon DEF Kept
<1>4. Cardinality(rest) = m
  <2>1. m \in 0..Cardinality(kept)
    BY <1>k DEF Holds
  <2>. QED BY <1>1, <1>r, <2>1, PlacesAreCounted
<1>5. Len(SubSeq(disk, 1, m)) = m /\ \A i \in 1..m : SubSeq(disk, 1, m)[i] = disk[i]
  BY CutShort
<1>6. ASSUME NEW i \in rest
      PROVE  SubSeq(disk, 1, m)[Cardinality(UpTo(rest, i))] = es[i]
  <2>1. UpTo(rest, i) = UpTo(kept, i)
    <3>1. \A j \in kept : j <= i => Cardinality(UpTo(kept, j)) <= m
      <4> TAKE j \in kept
      <4> HAVE j <= i
      <4>1. i \in kept /\ Cardinality(UpTo(kept, i)) <= m
        BY <1>r
      <4>2. Cardinality(UpTo(kept, j)) <= Cardinality(UpTo(kept, i))
        BY <1>1, <4>1, PlacesAreOrdered
      <4>. QED BY <1>2, <4>1, <4>2
    <3>. QED BY <1>r, <3>1 DEF UpTo
  <2>2. i \in kept /\ Cardinality(UpTo(kept, i)) \in 1..m
    <3>1. i \in kept /\ Cardinality(UpTo(kept, i)) <= m
      BY <1>r
    <3>2. Cardinality(UpTo(kept, i)) \in 1..Cardinality(kept)
      BY <1>1, <3>1, PlacesAreOrdered
    <3>. QED BY <1>1, <3>1, <3>2
  <2>3. disk[Cardinality(UpTo(kept, i))] = es[i]
    BY <1>k, <2>2 DEF Holds
  <2>. QED BY <1>5, <2>1, <2>2, <2>3, Zenon
<1>7. all \in SUBSET (1..Len(es))
  BY <1>a DEF Beyond, Kept
<1>8. Holds(SubSeq(disk, 1, m), es, all)
  BY <1>3, <1>4, <1>5, <1>6, Zenon DEF Holds
<1>. QED BY <1>7, <1>8, <1>a, Zenon

(***************************************************************************)
(* All that is said of what is recorded: the list, the writer, the events  *)
(* that were lost and the number of failures.                              *)
(***************************************************************************)
LogInv(es, w, l, failed) ==
  /\ es \in Seq(Events) /\ WriterInv(w) /\ l \in SUBSET (1..Len(es)) /\ failed \in Nat
  /\ Holds(OnDisk(w), es, l) /\ TailInv(Len(es), w, failed)

(* A write that returns keeps the log. *)
LEMMA LogWritten ==
  ASSUME NEW es, NEW w, NEW l, NEW failed, LogInv(es, w, l, failed), Ready(w), NEW e \in Events
  PROVE  LogInv(Append(es, e), Written(w, e), l, failed) /\ Ready(Written(w, e))
<1>v. PICK v : v = Written(w, e)
  OBVIOUS
<1>n. PICK n : n = Len(es)
  OBVIOUS
<1>1. /\ es \in Seq(Events) /\ l \in SUBSET (1..n) /\ failed \in Nat /\ n \in Nat
      /\ Holds(OnDisk(w), es, l) /\ TailInv(n, w, failed)
  BY <1>n DEF LogInv
<1>2. /\ Ready(v) /\ OnDisk(v) = Append(OnDisk(w), e) /\ TailInv(n + 1, v, failed)
  BY <1>1, <1>v, WrittenWriter
<1>3. OnDisk(w) \in Seq(Events)
  BY DiskType DEF Ready, WriterInv
<1>4. Holds(Append(OnDisk(w), e), Append(es, e), l)
  BY <1>1, <1>3, <1>n, HoldsWritten
<1>5. /\ Append(es, e) \in Seq(Events) /\ Len(Append(es, e)) = n + 1
  BY <1>1, <1>n
<1>6. l \in SUBSET (1..Len(Append(es, e)))
  BY <1>1, <1>5
<1>7. Holds(OnDisk(v), Append(es, e), l) /\ TailInv(Len(Append(es, e)), v, failed)
  BY <1>2, <1>4, <1>5, Zenon
<1>. QED BY <1>1, <1>2, <1>5, <1>6, <1>7, <1>v, Zenon DEF LogInv, Ready

(* The arithmetic of it: n events, t counted, f flushed, b failures and c  *)
(* events that they may have cost, before; s counted and y flushed after.  *)
LEMMA FailureCosts ==
  ASSUME NEW n \in Nat, NEW t \in Nat, NEW f \in Nat, NEW b \in Nat, NEW c \in Nat, NEW d \in Nat,
         NEW x \in Nat, NEW s \in {t, t + 1}, NEW y \in Nat,
         t <= n, n - t <= b, n - f <= x + c, x < d, f <= y
  PROVE  /\ s <= n + 1 /\ (n + 1) - s <= b + 1 /\ (n + 1) - y <= c + d
         /\ n - t <= b + 1 /\ n - f <= c + d
OBVIOUS

(* So does a failure after which the files begin as they would without it, *)
(* however much of the rest is gone.                                       *)
LEMMA LogCut ==
  ASSUME NEW es \in Seq(Events), NEW disk \in Seq(Events), NEW l \in SUBSET (1..Len(es)), Holds(disk, es, l),
         NEW v, WriterInv(v), NEW failed \in Nat,
         v.total <= Len(es), Len(es) - v.total <= failed + 1,
         Len(es) - v.flushed <= FlushEvery * (failed + 1),
         NEW m \in 0..Len(disk), OnDisk(v) = SubSeq(disk, 1, m)
  PROVE  LogInv(es, v, l \cup Beyond(es, l, Len(OnDisk(v))), failed + 1)
<1>1. Len(OnDisk(v)) = m
  BY CutShort
<1>2. l \cup Beyond(es, l, m) \in SUBSET (1..Len(es)) /\ Holds(OnDisk(v), es, l \cup Beyond(es, l, m))
  BY HoldsCut
<1>3. PICK n \in Nat, f \in Nat, t \in Nat, c \in Nat :
        n = Len(es) /\ f = v.flushed /\ t = v.total /\ c = FlushEvery * (failed + 1)
  <2>1. v.flushed \in Nat /\ v.total \in Nat
    BY DEF WriterInv, Writers
  <2>2. FlushEvery * (failed + 1) \in Nat /\ Len(es) \in Nat
    BY WriterAssumption
  <2>. QED BY <2>1, <2>2, Zenon
<1>4. m \in Nat /\ f <= m
  BY <1>1, <1>3 DEF WriterInv
<1>5. PICK x \in Nat : x = t % FlushEvery
  BY RemainderCounts, WriterAssumption
<1>6. n - m <= c /\ n - f <= x + c
  BY <1>3, <1>4, <1>5
<1>7. TailInv(Len(es), v, failed + 1)
  BY <1>1, <1>3, <1>5, <1>6, Zenon DEF TailInv
<1>8. failed + 1 \in Nat
  OBVIOUS
<1>. QED BY <1>1, <1>2, <1>7, <1>8, Zenon DEF LogInv

(* A write that raises keeps the log, and so does one after which the      *)
(* closing raises as well.                                                 *)
LEMMA LogFailed ==
  ASSUME NEW es, NEW w, NEW l, NEW failed, LogInv(es, w, l, failed), Ready(w), NEW e \in Events,
         NEW u \in Failed(w, e), NEW v \in {u, Closed(u)} \cup FailsToClose(u)
  PROVE  /\ LogInv(Append(es, e), v, l \cup Beyond(Append(es, e), l, Len(OnDisk(v))), failed + 1)
         /\ v # Closed(u) => Ready(v)
         /\ v = Closed(u) => ~v.open
         /\ v \in FailsToClose(u) => v.flushed < Len(es) + 1
<1>n. PICK n : n = Len(es)
  OBVIOUS
<1>1. /\ es \in Seq(Events) /\ l \in SUBSET (1..n) /\ failed \in Nat /\ n \in Nat
      /\ Holds(OnDisk(w), es, l) /\ TailInv(n, w, failed) /\ w \in Writers /\ w.flushed <= Len(OnDisk(w))
  BY <1>n DEF LogInv, WriterInv
<1>2. /\ Ready(u) /\ u.total \in {w.total, w.total + 1} /\ u.flushed >= w.flushed
      /\ \E m \in u.flushed..Len(OnDisk(w)) + 1 : OnDisk(u) = SubSeq(Append(OnDisk(w), e), 1, m)
  BY FailedWriter
<1>p. PICK t \in Nat, f \in Nat, g \in Nat, z \in Nat :
        t = w.total /\ f = w.flushed /\ g = u.flushed /\ z = Len(OnDisk(w))
  <2>1. w.total \in Nat /\ w.flushed \in Nat /\ u.flushed \in Nat
    BY <1>1, <1>2 DEF Ready, WriterInv, Writers
  <2>. QED BY <1>1, <2>1, DiskType, Zenon
<1>d. PICK disk \in Seq(Events) : disk = Append(OnDisk(w), e) /\ Len(disk) = z + 1
  <2>1. OnDisk(w) \in Seq(Events)
    BY <1>1, DiskType
  <2>2. Append(OnDisk(w), e) \in Seq(Events) /\ Len(Append(OnDisk(w), e)) = z + 1
    BY <1>p, <2>1, AppendedEvents
  <2>. QED BY <2>2, Zenon
<1>a. PICK list \in Seq(Events) : list = Append(es, e) /\ Len(list) = n + 1
  <2>1. Append(es, e) \in Seq(Events) /\ Len(Append(es, e)) = n + 1
    BY <1>1, <1>n, AppendedEvents
  <2>. QED BY <2>1, Zenon
<1>3. Holds(disk, list, l) /\ l \in SUBSET (1..Len(list))
  <2>1. OnDisk(w) \in Seq(Events)
    BY <1>1, DiskType
  <2>2. Holds(disk, list, l)
    BY <1>1, <1>a, <1>d, <1>n, <2>1, HoldsWritten
  <2>. QED BY <1>1, <1>a, <2>2
<1>4. PICK k \in g..z + 1 : OnDisk(u) = SubSeq(disk, 1, k)
  BY <1>2, <1>d, <1>p, Zenon
<1>5. SubSeq(disk, 1, k) \in Seq(Events) /\ Len(OnDisk(u)) = k
  <2>1. k \in 0..Len(disk)
    BY <1>d, <1>p
  <2>. QED BY <1>4, <2>1, CutShort
<1>6. /\ WriterInv(v) /\ (v # Closed(u) => Ready(v)) /\ (v = Closed(u) => ~v.open)
      /\ v.total \in {t, t + 1} /\ v.flushed \in g..k
      /\ v \in FailsToClose(u) => v.flushed < k
      /\ \E m \in v.flushed..k : OnDisk(v) = SubSeq(disk, 1, m)
  <2>0. WriterInv(u) /\ u.total \in {t, t + 1} /\ g \in g..k /\ k \in g..k
    BY <1>2, <1>p DEF Ready
  <2>1. ASSUME v \in FailsToClose(u)
        PROVE  /\ Ready(v) /\ v.open /\ v.total = u.total /\ v.flushed = g /\ g < k
               /\ \E m \in v.flushed..k : OnDisk(v) = SubSeq(disk, 1, m)
    <3>1. /\ Ready(v) /\ v.open /\ v.total = u.total /\ v.flushed = g /\ g < k
          /\ \E m \in g..k : OnDisk(v) = SubSeq(OnDisk(u), 1, m)
      BY <1>2, <1>5, <1>p, <2>1, UnclosedWriter
    <3>2. PICK m \in g..k : OnDisk(v) = SubSeq(OnDisk(u), 1, m)
      BY <3>1
    <3>3. SubSeq(SubSeq(disk, 1, k), 1, m) = SubSeq(disk, 1, m)
      <4>1. k \in 0..Len(disk) /\ m \in 0..k
        BY <1>d, <1>p
      <4>. QED BY ONLY <4>1, <1>d
    <3>4. OnDisk(v) = SubSeq(disk, 1, m)
      BY <1>4, <3>2, <3>3, Zenon
    <3>. QED BY <3>1, <3>2, <3>4
  <2>2. CASE v = Closed(u)
    <3>1. /\ WriterInv(v) /\ ~v.open /\ OnDisk(v) = OnDisk(u) /\ v.total = u.total /\ v.flushed = k
      BY <1>5, <2>0, <2>2, ClosedWriter
    <3>2. k \in v.flushed..k
      BY <3>1
    <3>3. v \notin FailsToClose(u)
      BY <2>1, <3>1
    <3>. QED BY <1>4, <2>0, <2>2, <3>1, <3>2, <3>3
  <2>3. CASE v \in FailsToClose(u) /\ v # Closed(u)
    <3>1. g \in g..k /\ WriterInv(v)
      BY <2>0, <2>1, <2>3 DEF Ready
    <3>. QED BY <2>0, <2>1, <2>3, <3>1
  <2>4. CASE v = u /\ v \notin FailsToClose(u) /\ v # Closed(u)
    <3>1. v.flushed = g /\ k \in v.flushed..k
      BY <1>p, <2>4
    <3>. QED BY <1>2, <1>4, <2>0, <2>4, <3>1
  <2>. QED BY <2>2, <2>3, <2>4
<1>7. PICK m \in v.flushed..k : OnDisk(v) = SubSeq(disk, 1, m)
  BY <1>6
<1>8. /\ v.total <= n + 1 /\ (n + 1) - v.total <= failed + 1
      /\ (n + 1) - v.flushed <= FlushEvery * (failed + 1)
      /\ m \in 0..Len(disk) /\ k <= n + 1
  <2>1. PICK c \in Nat, x \in Nat : c = FlushEvery * failed /\ x = t % FlushEvery /\ x < FlushEvery
    <3>1. FlushEvery * failed \in Nat
      BY <1>1, WriterAssumption
    <3>2. t % FlushEvery \in Nat /\ t % FlushEvery < FlushEvery
      BY RemainderCounts, WriterAssumption
    <3>. QED BY <3>1, <3>2, Zenon
  <2>2. FlushEvery * (failed + 1) = c + FlushEvery
    BY <1>1, <2>1, WriterAssumption
  <2>3. t <= n /\ n - t <= failed /\ n - f <= x + c
    BY <1>1, <1>p, <2>1, Zenon DEF TailInv
  <2>4. g >= f /\ v.flushed \in g..k /\ v.total \in {t, t + 1}
    BY <1>2, <1>6, <1>p
  <2>5. z <= n
    <3>1. Len(OnDisk(w)) = Cardinality(Kept(es, l)) /\ Cardinality(Kept(es, l)) = n - Cardinality(l)
          /\ Cardinality(l) \in Nat
      BY <1>1, <1>n, KeptIsFinite DEF Holds
    <3>. QED BY <1>1, <1>p, <3>1
  <2>a. PICK y \in Nat, s \in Nat, b \in Nat, d \in Nat :
          y = v.flushed /\ s = v.total /\ b = failed /\ d = FlushEvery
    <3>1. v.flushed \in Nat /\ v.total \in Nat
      BY <1>6 DEF WriterInv, Writers
    <3>2. failed \in Nat /\ FlushEvery \in Nat
      BY <1>1, WriterAssumption
    <3>. QED BY <3>1, <3>2, Zenon
  <2>b. f <= y /\ s \in {t, t + 1}
    BY <1>p, <2>4, <2>a
  <2>c. t <= n /\ n - t <= b /\ n - f <= x + c /\ x < d /\ n \in Nat
    BY <1>1, <2>1, <2>3, <2>a, Zenon
  <2>6. s <= n + 1 /\ (n + 1) - s <= b + 1 /\ (n + 1) - y <= c + d
    BY <2>b, <2>c, FailureCosts
  <2>7. m \in 0..Len(disk) /\ k <= n + 1
    BY <1>1, <1>d, <1>p, <2>4, <2>5
  <2>8. v.total <= n + 1 /\ (n + 1) - v.total <= failed + 1
    BY <2>6, <2>a, Zenon
  <2>9. (n + 1) - v.flushed <= FlushEvery * (failed + 1)
    BY <2>2, <2>6, <2>a, Zenon
  <2>. QED BY <2>7, <2>8, <2>9
<1>9. LogInv(list, v, l \cup Beyond(list, l, Len(OnDisk(v))), failed + 1)
  BY <1>1, <1>3, <1>6, <1>7, <1>8, <1>a, LogCut
<1>10. v \in FailsToClose(u) => v.flushed < Len(es) + 1
  BY <1>1, <1>6, <1>8, <1>n, <1>p
<1>. QED BY <1>6, <1>9, <1>10, <1>a, Zenon

(* Closing the file keeps the log. *)
LEMMA LogClosed ==
  ASSUME NEW es, NEW w, NEW l, NEW failed, LogInv(es, w, l, failed)
  PROVE  LogInv(es, Closed(w), l, failed) /\ ~Closed(w).open
<1>v. PICK v : v = Closed(w)
  OBVIOUS
<1>1. /\ WriterInv(v) /\ ~v.open /\ OnDisk(v) = OnDisk(w) /\ v.total = w.total /\ v.flushed = Len(OnDisk(w))
  BY <1>v, ClosedWriter DEF LogInv
<1>2. TailInv(Len(es), v, failed)
  <2>1. PICK t \in Nat, n \in Nat, z \in Nat : t = w.total /\ n = Len(es) /\ z = Len(OnDisk(w))
    BY DiskType DEF LogInv, WriterInv, Writers
  <2>2. PICK x \in Nat, c \in Nat : x = t % FlushEvery /\ c = FlushEvery * failed
    BY RemainderCounts, WriterAssumption DEF LogInv
  <2>3. t <= n /\ n - t <= failed /\ n - z <= c
    BY <2>1, <2>2, Zenon DEF LogInv, TailInv
  <2>4. n - z <= x + c
    BY <2>1, <2>2, <2>3
  <2>. QED BY <1>1, <2>1, <2>2, <2>3, <2>4, Zenon DEF TailInv
<1>. QED BY <1>1, <1>2, <1>v, Zenon DEF LogInv

(* So does a closing that raises. *)
LEMMA LogUnclosed ==
  ASSUME NEW es, NEW w, NEW l, NEW failed, LogInv(es, w, l, failed), Ready(w), NEW v \in FailsToClose(w)
  PROVE  /\ LogInv(es, v, l \cup Beyond(es, l, Len(OnDisk(v))), failed + 1)
         /\ Ready(v) /\ v.flushed < Len(es)
<1>1. /\ es \in Seq(Events) /\ l \in SUBSET (1..Len(es)) /\ failed \in Nat
      /\ Holds(OnDisk(w), es, l) /\ TailInv(Len(es), w, failed) /\ w \in Writers
  BY DEF LogInv, WriterInv
<1>2. /\ Ready(v) /\ v.open /\ v.total = w.total /\ v.flushed = w.flushed /\ w.flushed < Len(OnDisk(w))
      /\ \E m \in w.flushed..Len(OnDisk(w)) : OnDisk(v) = SubSeq(OnDisk(w), 1, m)
  BY UnclosedWriter
<1>3. PICK m \in w.flushed..Len(OnDisk(w)) : OnDisk(v) = SubSeq(OnDisk(w), 1, m)
  BY <1>2
<1>p. PICK t \in Nat, f \in Nat, z \in Nat, n \in Nat :
        t = w.total /\ f = w.flushed /\ z = Len(OnDisk(w)) /\ n = Len(es)
  <2>1. w.total \in Nat /\ w.flushed \in Nat /\ Len(es) \in Nat
    BY <1>1 DEF Writers
  <2>. QED BY <1>1, <2>1, DiskType, Zenon
<1>4. OnDisk(w) \in Seq(Events) /\ m \in 0..Len(OnDisk(w))
  <2>1. m \in 0..z
    BY <1>p
  <2>. QED BY <1>1, <1>p, <2>1, DiskType
<1>5. /\ t <= n /\ n - t <= failed + 1 /\ n - f <= FlushEvery * (failed + 1)
  <2>1. PICK c \in Nat, x \in Nat : c = FlushEvery * failed /\ x = t % FlushEvery /\ x < FlushEvery
    <3>1. FlushEvery * failed \in Nat
      BY <1>1, WriterAssumption
    <3>2. t % FlushEvery \in Nat /\ t % FlushEvery < FlushEvery
      BY RemainderCounts, WriterAssumption
    <3>. QED BY <3>1, <3>2, Zenon
  <2>2. FlushEvery * (failed + 1) = c + FlushEvery
    BY <1>1, <2>1, WriterAssumption
  <2>3. t <= n /\ n - t <= failed /\ n - f <= x + c
    BY <1>1, <1>p, <2>1, Zenon DEF TailInv
  <2>4. PICK b \in Nat, d \in Nat : b = failed /\ d = FlushEvery
    <3>1. failed \in Nat /\ FlushEvery \in Nat
      BY <1>1, WriterAssumption
    <3>. QED BY <3>1, Zenon
  <2>5. t <= n /\ n - t <= b /\ n - f <= x + c /\ x < d
    BY <2>1, <2>3, <2>4, Zenon
  <2>6. n - t <= b + 1 /\ n - f <= c + d
    <3>1. t \in {t, t + 1} /\ f <= f
      OBVIOUS
    <3>. QED BY <2>5, <3>1, FailureCosts
  <2>. QED BY <2>2, <2>4, <2>5, <2>6
<1>6. LogInv(es, v, l \cup Beyond(es, l, Len(OnDisk(v))), failed + 1)
  <2>1. v.total <= Len(es) /\ Len(es) - v.total <= failed + 1 /\ Len(es) - v.flushed <= FlushEvery * (failed + 1)
    BY <1>2, <1>5, <1>p
  <2>2. WriterInv(v)
    BY <1>2 DEF Ready
  <2>. QED BY <1>1, <1>3, <1>4, <2>1, <2>2, LogCut
<1>7. w.flushed < Len(es)
  <2>1. z = Cardinality(Kept(es, l)) /\ Cardinality(Kept(es, l)) = n - Cardinality(l) /\ Cardinality(l) \in Nat
    BY <1>1, <1>p, KeptIsFinite DEF Holds
  <2>. QED BY <1>2, <1>p, <2>1
<1>. QED BY <1>2, <1>6, <1>7

-------------------------------------------------------------------------------
(***************************************************************************)
(* The tasks: which may be alive where run() is.                           *)
(***************************************************************************)
Ended == main \in {"stopped", "crashed"}

TaskInv ==
  /\ main \in {"start", "head", "connecting", "waiting", "cleanup", "timed_out", "raising",
              "sleeping", "stopped", "crashed"}
  /\ done \in BOOLEAN /\ idle \in BOOLEAN /\ reconnects \in 0..MaxReconnects + 1
  /\ heartbeat \in {"off", "sleeping", "failed"}
  /\ watchdog \in {"off", "sleeping", "disconnecting", "failed"}
  /\ timeout \in Timeouts
  /\ socket \in {"none", "up", "broken", "down"} /\ joining \in BOOLEAN
  /\ quiet \in 0..MaxIdle /\ elapsed \in Nat
  /\ messages \in 0..MaxMessages /\ heartbeats \in 0..MaxHeartbeats
  /\ ~Ended => reconnects <= MaxReconnects
  /\ main \in {"start", "head", "connecting", "sleeping", "stopped"} => TasksAreOff
  /\ main \in {"start", "head", "sleeping", "stopped"} => ~Connected
  /\ joining => Connected

(* It holds initially. *)
LEMMA TaskInit ==
  ASSUME Init
  PROVE  TaskInv
<1>1. MaxMessages \in Nat /\ MaxHeartbeats \in Nat /\ MaxReconnects \in Nat /\ MaxIdle \in Nat
  BY RecorderAssumption
<1>2. 0 \in 0..MaxMessages /\ 0 \in 0..MaxHeartbeats /\ 0 \in 0..MaxReconnects + 1 /\ 0 \in 0..MaxIdle
  BY <1>1
<1>3. done \in BOOLEAN /\ idle \in BOOLEAN /\ joining \in BOOLEAN /\ ~joining
  BY Zenon DEF Init
<1>4. TasksAreOff /\ ~Connected
  BY DEF Init, TasksAreOff, Connected
<1>. QED BY <1>1, <1>2, <1>3, <1>4 DEF Init, TaskInv, Ended

(* Every step keeps it, whatever it records. *)
LEMMA TaskStep ==
  ASSUME TaskInv, [Next]_vars
  PROVE  TaskInv'
<1>. /\ MaxMessages \in Nat /\ MaxHeartbeats \in Nat /\ MaxReconnects \in Nat /\ MaxIdle \in Nat
     /\ None \notin Int /\ Timeouts \subseteq (Nat \ {0}) \cup {None}
  BY RecorderAssumption
<1>. USE DEF TaskInv, Ended, TasksAreOff, Connected, Alive, InFinally, Disconnected,
         socketVars, clockVars
<1>1. CASE FetchMetadata
  BY <1>1 DEF FetchMetadata, RecordCrashes, Crash
<1>2. CASE Loop
  <2>1. CASE main' = "stopped" /\ UNCHANGED <<idle, socket, quiet>>
    BY <1>2, <2>1 DEF Loop
  <2>2. CASE main' = "connecting" /\ idle' = FALSE /\ socket' = "none" /\ quiet' = 0
    <3>1. idle' \in BOOLEAN /\ joining' = joining /\ joining \in BOOLEAN /\ ~joining
      BY <1>2, <2>2, Zenon DEF Loop
    <3>2. 0 \in 0..MaxIdle
      OBVIOUS
    <3>. QED BY <1>2, <2>2, <3>1, <3>2 DEF Loop
  <2>3. CASE main' = "crashed" /\ UNCHANGED <<idle, socket, quiet>>
    BY <1>2, <2>3 DEF Loop
  <2>. QED BY <1>2, <2>1, <2>2, <2>3 DEF Loop, CloseAndEnd, CloseRaises, Crash
<1>3. CASE ConnectReturns
  BY <1>3 DEF ConnectReturns
<1>4. CASE ConnectFails
  BY <1>4 DEF ConnectFails
<1>5. CASE WaitEnds
  BY <1>5 DEF WaitEnds
<1>6. CASE CancelHeartbeat
  BY <1>6 DEF CancelHeartbeat
<1>7. CASE CancelWatchdog
  BY <1>7 DEF CancelWatchdog
<1>8. CASE FailedTaskRaises
  BY <1>8 DEF FailedTaskRaises, CloseAndEnd, CloseRaises, Crash
<1>9. CASE DisconnectSocket
  BY <1>9 DEF DisconnectSocket, taskVars
<1>10. CASE AfterConnection
  BY <1>10 DEF AfterConnection, CleanedUp, WithinBudget, GiveUp, CloseAndEnd, CloseRaises, RecordCrashes, Crash
<1>11. CASE Wake
  BY <1>11 DEF Wake
<1>12. CASE HeartbeatWakes
  BY <1>12 DEF HeartbeatWakes
<1>13. CASE WatchdogWakes
  BY <1>13 DEF WatchdogWakes
<1>14. CASE WatchdogDisconnects
  BY <1>14 DEF WatchdogDisconnects
<1>15. CASE SocketOpens
  BY <1>15 DEF SocketOpens, taskVars
<1>16. CASE RoomsJoined
  BY <1>16 DEF RoomsJoined, taskVars
<1>17. CASE Message
  <2>1. done' \in BOOLEAN
    BY <1>17, Zenon DEF Message
  <2>. QED BY <1>17, <2>1 DEF Message
<1>18. CASE Break
  BY <1>18 DEF Break, taskVars
<1>19. CASE Notice
  BY <1>19 DEF Notice, taskVars
<1>20. CASE Tick
  BY <1>20 DEF Tick, TimedOut, taskVars
<1>21. CASE UNCHANGED vars
  BY <1>21 DEF vars, taskVars
<1>. QED
  BY <1>1, <1>2, <1>3, <1>4, <1>5, <1>6, <1>7, <1>8, <1>9, <1>10, <1>11, <1>12, <1>13, <1>14, <1>15,
     <1>16, <1>17, <1>18, <1>19, <1>20, <1>21 DEF Next

-------------------------------------------------------------------------------
(***************************************************************************)
(* Connections: what is in the list of one connection is marked before the *)
(* next begins.  r is the number of reconnects, c says whether the socket  *)
(* is connected.                                                           *)
(***************************************************************************)
Marked(es, n) ==
  \A i \in 1..Len(es) : IsMessage(es[i]) /\ es[i].reconnects < n
                          => \E k \in i..Len(es) : es[k] = EndOf(es[i])
Separated(es) ==
  \A i, j \in 1..Len(es) :
    i < j /\ IsMessage(es[i]) /\ IsMessage(es[j]) /\ es[i].reconnects # es[j].reconnects
      => \E k \in i..j : es[k] = EndOf(es[i])
ConnectionInv(es, r, c) ==
  /\ \A i \in 1..Len(es) : es[i].reconnects <= r
  /\ Marked(es, r) /\ (~c => Marked(es, r + 1))
  /\ Separated(es)

(* An event that is no message comes in anywhere. *)
LEMMA MarkEvent ==
  ASSUME NEW es \in Seq(Events), NEW r \in Nat, NEW c \in BOOLEAN, ConnectionInv(es, r, c),
         NEW e \in Events, ~IsMessage(e), e.reconnects <= r
  PROVE  ConnectionInv(Append(es, e), r, c)
<1>n. PICK n \in Nat : n = Len(es)
  OBVIOUS
<1>m. PICK more : more = Append(es, e)
  OBVIOUS
<1>1. /\ Len(more) = n + 1 /\ more[n + 1] = e /\ \A i \in 1..n : more[i] = es[i]
  BY <1>n, <1>m, AppendedEvents
<1>2. \A i \in 1..n + 1 : i \in 1..n \/ i = n + 1
  OBVIOUS
<1>3. \A i \in 1..Len(more) : more[i].reconnects <= r
  BY <1>1, <1>2, <1>n DEF ConnectionInv
<1>4. ASSUME NEW b \in Nat, Marked(es, b)
      PROVE  Marked(more, b)
  BY <1>1, <1>2, <1>4, <1>n DEF Marked
<1>5. Separated(more)
  BY <1>1, <1>2, <1>n DEF Separated, ConnectionInv
<1>. QED BY <1>3, <1>4, <1>5, <1>m DEF ConnectionInv

(* A mark of the end covers what came before it. *)
LEMMA MarkDisconnect ==
  ASSUME NEW es \in Seq(Events), NEW r \in Nat, NEW c \in BOOLEAN, ConnectionInv(es, r, c),
         NEW e \in Events, e = [kind |-> "disconnect", reconnects |-> r]
  PROVE  ConnectionInv(Append(es, e), r, FALSE)
<1>n. PICK n \in Nat : n = Len(es)
  OBVIOUS
<1>m. PICK more : more = Append(es, e)
  OBVIOUS
<1>1. /\ Len(more) = n + 1 /\ more[n + 1] = e
  BY <1>n, <1>m, AppendedEvents
<1>2. ConnectionInv(more, r, c)
  <2>1. e.reconnects <= r
    OBVIOUS
  <2>. QED BY <1>m, <2>1, MarkEvent DEF IsMessage
<1>3. Marked(more, r + 1)
  <2> SUFFICES ASSUME NEW i \in 1..n + 1, IsMessage(more[i]), more[i].reconnects < r + 1
               PROVE  \E k \in i..n + 1 : more[k] = EndOf(more[i])
    BY <1>1 DEF Marked
  <2>1. i \in 1..n /\ more[i] = es[i] /\ more[i].reconnects \in Nat
    <3>1. i # n + 1
      BY <1>1 DEF IsMessage
    <3>. QED BY <1>m, <1>n, <3>1, AppendedEvents
  <2>2. CASE more[i].reconnects < r
    <3>1. Marked(more, r)
      BY <1>2 DEF ConnectionInv
    <3>. QED BY <1>1, <2>2, <3>1 DEF Marked
  <2>3. CASE more[i].reconnects = r
    <3>1. n + 1 \in i..n + 1
      BY <2>1
    <3>2. more[n + 1] = EndOf(more[i])
      BY <1>1, <2>3, Zenon DEF EndOf
    <3>. QED BY <3>1, <3>2
  <2>. QED BY <2>1, <2>2, <2>3
<1>. QED BY <1>2, <1>3, <1>m DEF ConnectionInv

(* A message comes in while its connection is the current one. *)
LEMMA MarkMessage ==
  ASSUME NEW es \in Seq(Events), NEW r \in Nat, ConnectionInv(es, r, TRUE),
         NEW e \in Events, IsMessage(e), e.reconnects = r
  PROVE  ConnectionInv(Append(es, e), r, TRUE)
<1>n. PICK n \in Nat : n = Len(es)
  OBVIOUS
<1>m. PICK more : more = Append(es, e)
  OBVIOUS
<1>1. /\ Len(more) = n + 1 /\ more[n + 1] = e
      /\ \A i \in 1..n : more[i] = es[i] /\ es[i].reconnects \in Nat
  BY <1>n, <1>m, AppendedEvents
<1>2. \A i \in 1..n + 1 : i \in 1..n \/ i = n + 1
  OBVIOUS
<1>3. \A i \in 1..Len(more) : more[i].reconnects <= r
  BY <1>1, <1>2, <1>n DEF ConnectionInv
<1>4. Marked(more, r)
  BY <1>1, <1>2, <1>n DEF Marked, ConnectionInv
<1>5. Separated(more)
  <2> SUFFICES ASSUME NEW i \in 1..n + 1, NEW j \in 1..n + 1,
                      i < j, IsMessage(more[i]), IsMessage(more[j]), more[i].reconnects # more[j].reconnects
               PROVE  \E k \in i..j : more[k] = EndOf(more[i])
    BY <1>1 DEF Separated
  <2>1. i \in 1..n
    OBVIOUS
  <2>2. CASE j \in 1..n
    <3>1. PICK k \in i..j : es[k] = EndOf(es[i])
      BY <1>1, <1>n, <2>1, <2>2 DEF ConnectionInv, Separated
    <3>. QED BY <1>1, <2>1, <2>2, <3>1
  <2>3. CASE j = n + 1
    <3>1. es[i].reconnects < r /\ IsMessage(es[i])
      BY <1>1, <1>n, <2>1, <2>3 DEF ConnectionInv
    <3>2. PICK k \in i..n : es[k] = EndOf(es[i])
      BY <1>n, <2>1, <3>1 DEF ConnectionInv, Marked
    <3>. QED BY <1>1, <2>1, <2>3, <3>2
  <2>. QED BY <2>2, <2>3
<1>. QED BY <1>3, <1>4, <1>5, <1>m DEF ConnectionInv

(* The next attempt begins, and the next connection opens. *)
LEMMA MarkReconnect ==
  ASSUME NEW es \in Seq(Events), NEW r \in Nat, ConnectionInv(es, r, FALSE)
  PROVE  ConnectionInv(es, r + 1, FALSE) /\ ConnectionInv(es, r, TRUE)
<1>1. \A i \in 1..Len(es) : es[i].reconnects \in Nat /\ es[i].reconnects <= r
  <2>1. \A x \in Events : x.reconnects \in Nat
    BY RecorderAssumption DEF Events
  <2>. QED BY <2>1 DEF ConnectionInv
<1>2. Marked(es, (r + 1) + 1)
  BY <1>1 DEF ConnectionInv, Marked
<1>3. \A i \in 1..Len(es) : es[i].reconnects <= r + 1
  BY <1>1
<1>. QED BY <1>2, <1>3 DEF ConnectionInv

-------------------------------------------------------------------------------
(***************************************************************************)
(* The recorder.                                                           *)
(***************************************************************************)
OutputInv ==
  /\ LogInv(events, writer, lost, failures) /\ failures <= MaxFailures
  /\ ~Ended => Ready(writer)
  /\ Ended /\ writer.open => main = "crashed" /\ writer.flushed < Len(events)
StreamInv == ConnectionInv(events, reconnects, Connected)
Inv == TaskInv /\ OutputInv /\ StreamInv

(* What an exception costs are the last of the events that were kept. *)
LEMMA RaiseTakes ==
  ASSUME NEW list, NEW w, Raise(list, w), failures \in Nat,
         LogInv(list, w, lost \cup Beyond(list, lost, Len(OnDisk(w))), failures + 1)
  PROVE  /\ events' = list /\ writer' = w
         /\ LogInv(events', writer', lost', failures') /\ failures' <= MaxFailures
<1>1. Missing(list, w) = Beyond(list, lost, Len(OnDisk(w)))
  BY Zenon DEF Missing, Beyond, Kept, UpTo
<1>2. /\ events' = list /\ writer' = w /\ failures' = failures + 1 /\ failures < MaxFailures
      /\ lost' = lost \cup Beyond(list, lost, Len(OnDisk(w)))
  BY <1>1, Zenon DEF Raise
<1>3. failures' <= MaxFailures
  BY <1>2, RecorderAssumption
<1>. QED BY <1>2, <1>3, Zenon

(* An event that is recorded is in the list, and the log is kept, whether  *)
(* the write returns or raises.                                            *)
LEMMA RecordKeepsLog ==
  ASSUME LogInv(events, writer, lost, failures), failures <= MaxFailures, Ready(writer),
         NEW e \in Events, Record(e)
  PROVE  /\ events' = Append(events, e)
         /\ LogInv(events', writer', lost', failures') /\ failures' <= MaxFailures /\ Ready(writer')
<1>1. CASE Recorded(e)
  BY <1>1, LogWritten DEF Recorded
<1>2. CASE RecordRaises(e)
  <2>1. PICK w \in Failed(writer, e) : Raise(Append(events, e), w)
    BY <1>2 DEF RecordRaises
  <2>2. /\ LogInv(Append(events, e), w, lost \cup Beyond(Append(events, e), lost, Len(OnDisk(w))), failures + 1)
        /\ Ready(w)
    <3>1. Ready(w)
      BY FailedWriter
    <3>. QED BY <3>1, LogFailed
  <2>3. failures \in Nat
    BY DEF LogInv
  <2>. QED BY <2>1, <2>2, <2>3, RaiseTakes
<1>. QED BY <1>1, <1>2 DEF Record

(* An exception that ends run() closes the file on the way out, or what    *)
(* was to be flushed is left.                                              *)
LEMMA CrashKeepsLog ==
  ASSUME LogInv(events, writer, lost, failures), Ready(writer), NEW e \in Events, RecordCrashes(e)
  PROVE  /\ events' = Append(events, e) /\ main' = "crashed"
         /\ LogInv(events', writer', lost', failures') /\ failures' <= MaxFailures
         /\ writer'.open => writer'.flushed < Len(events')
<1>0. PICK u \in Failed(writer, e) : \E v \in {Closed(u)} \cup FailsToClose(u) : Raise(Append(events, e), v)
  BY DEF RecordCrashes
<1>1. PICK v \in {Closed(u)} \cup FailsToClose(u) : Raise(Append(events, e), v)
  BY <1>0
<1>2. failures \in Nat /\ events \in Seq(Events)
  BY DEF LogInv
<1>3. v \in {u, Closed(u)} \cup FailsToClose(u)
  BY <1>1
<1>4. /\ LogInv(Append(events, e), v, lost \cup Beyond(Append(events, e), lost, Len(OnDisk(v))), failures + 1)
      /\ v = Closed(u) => ~v.open
      /\ v \in FailsToClose(u) => v.flushed < Len(events) + 1
  BY <1>3, LogFailed
<1>5. /\ events' = Append(events, e) /\ writer' = v
      /\ LogInv(events', writer', lost', failures') /\ failures' <= MaxFailures
  BY <1>1, <1>2, <1>4, RaiseTakes
<1>6. Len(Append(events, e)) = Len(events) + 1
  BY <1>2
<1>. QED BY <1>1, <1>4, <1>5, <1>6, Zenon DEF RecordCrashes, Crash

(* So does a closing that raises. *)
LEMMA CloseKeepsLog ==
  ASSUME NEW list, NEW w, LogInv(list, w, lost, failures), Ready(w), CloseRaises(list, w)
  PROVE  /\ events' = list /\ main' = "crashed"
         /\ LogInv(events', writer', lost', failures') /\ failures' <= MaxFailures
         /\ writer'.flushed < Len(events')
<1>1. PICK v \in FailsToClose(w) : Raise(list, v)
  BY DEF CloseRaises
<1>2. failures \in Nat
  BY DEF LogInv
<1>3. LogInv(list, v, lost \cup Beyond(list, lost, Len(OnDisk(v))), failures + 1) /\ v.flushed < Len(list)
  BY LogUnclosed
<1>4. /\ events' = list /\ writer' = v
      /\ LogInv(events', writer', lost', failures') /\ failures' <= MaxFailures
  BY <1>1, <1>2, <1>3, RaiseTakes
<1>. QED BY <1>3, <1>4, Zenon DEF CloseRaises, Crash

(* What the tasks record are events. *)
LEMMA EventType ==
  ASSUME TaskInv, NEW kind \in Kinds
  PROVE  Event(kind) \in Events /\ Event(kind).kind = kind /\ Event(kind).reconnects = reconnects
BY DEF TaskInv, Event, Events

(* The invariant holds initially: the first file is open and empty. *)
LEMMA InvInit ==
  ASSUME Init
  PROVE  Inv
<1>1. TaskInv
  BY TaskInit
<1>n. PICK n : n = NewWriter
  OBVIOUS
<1>2. Ready(n) /\ n.total = 0 /\ n.flushed = 0 /\ n.files = <<>>
  <2>1. /\ n \in Writers /\ n.total = 0 /\ n.flushed = 0 /\ n.files = <<>> /\ n.index = 0 /\ ~n.open
        /\ Len(n.files) = 0
    BY <1>n DEF NewWriter, Writers
  <2>2. Len(OnDisk(n)) = 0
    BY <2>1 DEF OnDisk, FlattenSeq
  <2>. QED BY <2>1, <2>2 DEF Ready, WriterInv
<1>w. PICK w : w = Opened(n)
  OBVIOUS
<1>3. Ready(w) /\ w.total = 0 /\ w.flushed = 0 /\ OnDisk(w) = OnDisk(n)
  BY <1>2, <1>w, OpenedWriter
<1>4. OnDisk(n) = <<>>
  BY <1>2 DEF OnDisk, FlattenSeq
<1>5. events = <<>> /\ lost = {} /\ failures = 0 /\ writer = w /\ reconnects = 0
  BY <1>n, <1>w DEF Init
<1>6. Holds(<<>>, <<>>, {})
  <2>1. Kept(<<>>, {}) = {}
    BY DEF Kept
  <2>. QED BY <2>1, FS_EmptySet DEF Holds
<1>7. TailInv(0, w, 0)
  <2>1. 0 % FlushEvery \in Nat /\ FlushEvery * 0 = 0
    BY RemainderCounts, WriterAssumption
  <2>2. Len(OnDisk(w)) = 0
    BY <1>3, <1>4
  <2>. QED BY <1>3, <2>1, <2>2 DEF TailInv
<1>8. LogInv(<<>>, w, {}, 0)
  <2>1. <<>> \in Seq(Events) /\ {} \in SUBSET (1..Len(<<>>)) /\ Cardinality({}) = 0 /\ Len(<<>>) = 0
    BY FS_EmptySet
  <2>2. Holds(OnDisk(w), <<>>, {})
    BY <1>3, <1>4, <1>6, Zenon
  <2>. QED BY <1>3, <1>7, <2>1, <2>2 DEF LogInv, Ready
<1>9. OutputInv
  <2>1. ~Ended
    BY DEF Init, Ended
  <2>. QED BY <1>3, <1>5, <1>8, <2>1, RecorderAssumption DEF OutputInv
<1>10. StreamInv
  BY <1>5 DEF StreamInv, ConnectionInv, Marked, Separated
<1>. QED BY <1>1, <1>9, <1>10 DEF Inv

(* A step that records nothing and leaves the socket and the number of     *)
(* reconnects as they are, and run() where it is if that has ended.        *)
LEMMA QuietStep ==
  ASSUME OutputInv, StreamInv, UNCHANGED outputVars, main' = main \/ ~Ended', ~Ended \/ main' = main,
         Connected' = Connected, reconnects' = reconnects
  PROVE  OutputInv' /\ StreamInv'
<1>1. Ended' => Ended /\ main' = main
  BY DEF Ended
<1>2. Ended => Ended'
  BY DEF Ended
<1>. QED BY <1>1, <1>2, Zenon DEF OutputInv, StreamInv, outputVars

(* A step that records one event that is no message. *)
LEMMA RecordStep ==
  ASSUME TaskInv, OutputInv, StreamInv, ~Ended, ~Ended', Connected' = Connected, reconnects' = reconnects,
         NEW kind \in Kinds \ {"raw", "data"}, Record(Event(kind))
  PROVE  OutputInv' /\ StreamInv'
<1>1. Event(kind) \in Events /\ ~IsMessage(Event(kind)) /\ Event(kind).reconnects = reconnects
  BY EventType DEF IsMessage
<1>2. /\ events' = Append(events, Event(kind))
      /\ LogInv(events', writer', lost', failures') /\ failures' <= MaxFailures /\ Ready(writer')
  BY <1>1, RecordKeepsLog DEF OutputInv
<1>3. events \in Seq(Events) /\ reconnects \in Nat /\ Connected \in BOOLEAN
  BY RecorderAssumption DEF OutputInv, LogInv, TaskInv, Connected
<1>4. ConnectionInv(Append(events, Event(kind)), reconnects, Connected)
  BY <1>1, <1>3, MarkEvent DEF StreamInv
<1>. QED BY <1>2, <1>4, Zenon DEF OutputInv, StreamInv

(* A step that records the end of the connection. *)
LEMMA DisconnectStep ==
  ASSUME TaskInv, OutputInv, StreamInv, ~Ended, ~Ended', reconnects' = reconnects, Disconnected
  PROVE  OutputInv' /\ StreamInv'
<1> DEFINE e == Event("disconnect")
<1>1. e \in Events /\ e = [kind |-> "disconnect", reconnects |-> reconnects]
  <2>1. e \in Events
    BY EventType DEF Kinds
  <2>. QED BY <2>1 DEF Event
<1>2. /\ events' = Append(events, e)
      /\ LogInv(events', writer', lost', failures') /\ failures' <= MaxFailures /\ Ready(writer')
  BY <1>1, RecordKeepsLog DEF OutputInv, Disconnected
<1>. HIDE DEF e
<1>3. events \in Seq(Events) /\ reconnects \in Nat /\ Connected \in BOOLEAN
  BY RecorderAssumption DEF OutputInv, LogInv, TaskInv, Connected
<1>4. ConnectionInv(Append(events, e), reconnects, FALSE)
  <2>1. PICK c \in BOOLEAN, r \in Nat : c = Connected /\ r = reconnects
    BY <1>3
  <2>2. ConnectionInv(events, r, c) /\ e = [kind |-> "disconnect", reconnects |-> r]
    BY <1>1, <2>1, Zenon DEF StreamInv
  <2>3. ConnectionInv(Append(events, e), r, FALSE)
    BY <1>1, <1>3, <2>2, MarkDisconnect
  <2>. QED BY <2>1, <2>3
<1>5. Connected' = FALSE
  BY DEF Disconnected, Connected
<1>. QED BY <1>2, <1>4, <1>5, Zenon DEF OutputInv, StreamInv

(* A step that ends run() and closes the file, unless that raises. *)
LEMMA CloseStep ==
  ASSUME OutputInv, StreamInv, ~Ended, Connected' = Connected, reconnects' = reconnects,
         NEW where \in {"stopped", "crashed"}, CloseAndEnd(where)
  PROVE  OutputInv' /\ StreamInv'
<1>0. LogInv(events, writer, lost, failures) /\ failures <= MaxFailures /\ Ready(writer)
  BY DEF OutputInv
<1>1. CASE writer' = Closed(writer) /\ UNCHANGED <<events, failures, lost>> /\ main' = where
  <2>1. LogInv(events, Closed(writer), lost, failures) /\ ~Closed(writer).open
    BY <1>0, LogClosed
  <2>2. Ended'
    BY <1>1 DEF Ended
  <2>. QED BY <1>0, <1>1, <2>1, <2>2, Zenon DEF OutputInv, StreamInv
<1>2. CASE CloseRaises(events, writer)
  <2>1. /\ events' = events /\ main' = "crashed"
        /\ LogInv(events', writer', lost', failures') /\ failures' <= MaxFailures
        /\ writer'.flushed < Len(events')
    BY <1>0, <1>2, CloseKeepsLog
  <2>2. Ended'
    BY <2>1 DEF Ended
  <2>. QED BY <2>1, <2>2, Zenon DEF OutputInv, StreamInv
<1>. QED BY <1>1, <1>2 DEF CloseAndEnd

(* A step that ends run() by a write that raises. *)
LEMMA CrashStep ==
  ASSUME TaskInv, OutputInv, StreamInv, ~Ended, Connected' = Connected, reconnects' = reconnects,
         NEW kind \in Kinds \ {"raw", "data"}, RecordCrashes(Event(kind))
  PROVE  OutputInv' /\ StreamInv'
<1>1. Event(kind) \in Events /\ ~IsMessage(Event(kind)) /\ Event(kind).reconnects = reconnects
  BY EventType DEF IsMessage
<1>2. /\ events' = Append(events, Event(kind)) /\ main' = "crashed"
      /\ LogInv(events', writer', lost', failures') /\ failures' <= MaxFailures
      /\ writer'.open => writer'.flushed < Len(events')
  BY <1>1, CrashKeepsLog DEF OutputInv
<1>e. Ended'
  BY <1>2 DEF Ended
<1>3. events \in Seq(Events) /\ reconnects \in Nat /\ Connected \in BOOLEAN
  BY RecorderAssumption DEF OutputInv, LogInv, TaskInv, Connected
<1>4. ConnectionInv(Append(events, Event(kind)), reconnects, Connected)
  BY <1>1, <1>3, MarkEvent DEF StreamInv
<1>. QED BY <1>2, <1>4, <1>e, Zenon DEF OutputInv, StreamInv

(* A message: two events, of which the second may be lost. *)
LEMMA MessageStep ==
  ASSUME TaskInv, OutputInv, StreamInv, Message
  PROVE  OutputInv' /\ StreamInv'
<1> DEFINE raw == Event("raw")
           data == Event("data")
<1>1. /\ raw \in Events /\ IsMessage(raw) /\ raw.reconnects = reconnects
      /\ data \in Events /\ IsMessage(data) /\ data.reconnects = reconnects
  BY EventType DEF Kinds, IsMessage
<1>2. /\ Ended' = Ended /\ ~Ended /\ Connected' = TRUE /\ Connected = TRUE /\ reconnects' = reconnects
  BY DEF Message, TaskInv, Ended, Connected, Alive
<1>3. /\ \/ /\ events' = events \o <<raw, data>>
            /\ writer' = Written(Written(writer, raw), data)
            /\ UNCHANGED <<failures, lost>>
         \/ RecordRaises(raw)
         \/ SecondRaises(<<raw, data>>)
  BY Zenon DEF Message
<1>. HIDE DEF raw, data
<1>4. /\ events \in Seq(Events) /\ reconnects \in Nat /\ failures \in Nat
      /\ LogInv(events, writer, lost, failures) /\ Ready(writer) /\ failures <= MaxFailures
      /\ ConnectionInv(events, reconnects, TRUE)
  <2>1. events \in Seq(Events) /\ failures \in Nat
    BY DEF OutputInv, LogInv
  <2>2. LogInv(events, writer, lost, failures) /\ Ready(writer) /\ failures <= MaxFailures
    BY <1>2 DEF OutputInv
  <2>3. ConnectionInv(events, reconnects, TRUE)
    BY <1>2, Zenon DEF StreamInv
  <2>4. reconnects \in Nat
    BY RecorderAssumption DEF TaskInv
  <2>. QED BY <2>1, <2>2, <2>3, <2>4
<1>5. /\ Append(events, raw) \in Seq(Events)
      /\ events \o <<raw, data>> = Append(Append(events, raw), data)
      /\ Len(events \o <<raw, data>>) = Len(Append(events, raw)) + 1
  BY <1>1, <1>4
<1>6. /\ ConnectionInv(Append(events, raw), reconnects, TRUE)
      /\ ConnectionInv(events \o <<raw, data>>, reconnects, TRUE)
  <2>1. ConnectionInv(Append(events, raw), reconnects, TRUE)
    BY <1>1, <1>4, MarkMessage
  <2>2. ConnectionInv(Append(Append(events, raw), data), reconnects, TRUE)
    BY <1>1, <1>4, <1>5, <2>1, MarkMessage
  <2>. QED BY <1>5, <2>1, <2>2, Zenon
<1>w. PICK w : w = Written(writer, raw)
  OBVIOUS
<1>7. LogInv(Append(events, raw), w, lost, failures) /\ Ready(w)
  BY <1>1, <1>4, <1>w, LogWritten
<1>8. ASSUME events' = events \o <<raw, data>>, writer' = Written(Written(writer, raw), data),
             UNCHANGED <<failures, lost>>
      PROVE  OutputInv' /\ StreamInv'
  <2>1. LogInv(Append(Append(events, raw), data), Written(w, data), lost, failures) /\ Ready(Written(w, data))
    BY <1>1, <1>7, LogWritten
  <2>2. /\ events' = Append(Append(events, raw), data) /\ writer' = Written(w, data)
        /\ lost' = lost /\ failures' = failures
    BY <1>5, <1>8, <1>w
  <2>3. OutputInv'
    BY <1>2, <1>4, <2>1, <2>2, Zenon DEF OutputInv
  <2>. QED BY <1>2, <1>6, <1>8, <2>3, Zenon DEF StreamInv
<1>9. ASSUME RecordRaises(raw)
      PROVE  OutputInv' /\ StreamInv'
  <2>1. /\ events' = Append(events, raw)
        /\ LogInv(events', writer', lost', failures') /\ failures' <= MaxFailures /\ Ready(writer')
    BY <1>1, <1>4, <1>9, RecordKeepsLog DEF Record
  <2>. QED BY <1>2, <1>6, <2>1, Zenon DEF OutputInv, StreamInv
<1>10. ASSUME SecondRaises(<<raw, data>>)
       PROVE  OutputInv' /\ StreamInv'
  <2>1. PICK v \in Failed(w, data) : Raise(events \o <<raw, data>>, v)
    BY <1>10, <1>w DEF SecondRaises
  <2>a. PICK list : list = Append(Append(events, raw), data)
    OBVIOUS
  <2>2. /\ LogInv(list, v, lost \cup Beyond(list, lost, Len(OnDisk(v))), failures + 1)
        /\ Ready(v)
    <3>1. Ready(v)
      BY <1>1, <1>7, FailedWriter
    <3>. QED BY <1>1, <1>7, <2>a, <3>1, LogFailed
  <2>3. Raise(list, v)
    BY <1>5, <2>1, <2>a, Zenon
  <2>4. /\ events' = list /\ writer' = v
        /\ LogInv(events', writer', lost', failures') /\ failures' <= MaxFailures
    BY <1>4, <2>2, <2>3, RaiseTakes
  <2>5. OutputInv'
    BY <1>2, <2>2, <2>4, Zenon DEF OutputInv
  <2>6. events' = events \o <<raw, data>>
    BY <1>5, <2>4, <2>a, Zenon
  <2>. QED BY <1>2, <1>6, <2>5, <2>6, Zenon DEF StreamInv
<1>. QED BY <1>3, <1>8, <1>9, <1>10

(* Every step keeps the invariant. *)
LEMMA InvStep ==
  ASSUME Inv, [Next]_vars
  PROVE  Inv'
<1>. TaskInv /\ OutputInv /\ StreamInv
  BY DEF Inv
<1>0. TaskInv'
  BY TaskStep
<1> SUFFICES OutputInv' /\ StreamInv'
  BY <1>0 DEF Inv
<1>k. {"metadata", "connect", "disconnect", "heartbeat", "error", "idle", "give_up"} = Kinds \ {"raw", "data"}
  BY DEF Kinds
<1>1. CASE FetchMetadata
  <2>1. ~Ended /\ Connected' = Connected /\ reconnects' = reconnects
    BY <1>1 DEF FetchMetadata, Ended, Connected, socketVars
  <2>2. CASE UNCHANGED outputVars /\ main' = "head"
    BY <2>1, <2>2, QuietStep DEF Ended
  <2>3. CASE Recorded(Event("metadata")) /\ UNCHANGED main
    <3>1. Record(Event("metadata")) /\ ~Ended'
      BY <2>1, <2>3 DEF Record, Ended
    <3>. QED BY <1>k, <2>1, <3>1, RecordStep
  <2>4. CASE RecordCrashes(Event("metadata"))
    BY <1>k, <2>1, <2>4, CrashStep
  <2>. QED BY <1>1, <2>2, <2>3, <2>4 DEF FetchMetadata
<1>2. CASE Loop
  <2>1. ~Ended /\ reconnects' = reconnects /\ Connected' = Connected
    BY <1>2 DEF Loop, Ended, TaskInv, Connected
  <2>2. CASE CloseAndEnd("stopped")
    BY <2>1, <2>2, CloseStep
  <2>3. CASE main' = "connecting" /\ UNCHANGED outputVars
    BY <2>1, <2>3, QuietStep DEF Ended
  <2>. QED BY <1>2, <2>2, <2>3 DEF Loop
<1>3. CASE ConnectReturns
  BY <1>3, QuietStep DEF ConnectReturns, Ended, Connected, socketVars
<1>4. CASE ConnectFails
  <2>1. /\ ~Ended /\ ~Ended' /\ reconnects' = reconnects /\ Connected' = Connected
        /\ Record(Event("error"))
    BY <1>4 DEF ConnectFails, Ended, Connected, socketVars, Record
  <2>. QED BY <1>k, <2>1, RecordStep
<1>5. CASE WaitEnds
  BY <1>5, QuietStep DEF WaitEnds, Ended, Connected, socketVars
<1>6. CASE CancelHeartbeat
  BY <1>6, QuietStep DEF CancelHeartbeat, Ended, Connected, socketVars
<1>7. CASE CancelWatchdog
  BY <1>7, QuietStep DEF CancelWatchdog, Ended, Connected, socketVars
<1>8. CASE FailedTaskRaises
  <2>1. ~Ended /\ reconnects' = reconnects /\ Connected' = Connected /\ CloseAndEnd("crashed")
    BY <1>8 DEF FailedTaskRaises, InFinally, Ended, Connected, socketVars
  <2>. QED BY <2>1, CloseStep
<1>9. CASE DisconnectSocket
  <2>1. ~Ended /\ ~Ended' /\ reconnects' = reconnects /\ Disconnected
    BY <1>9 DEF DisconnectSocket, InFinally, Ended, taskVars
  <2>. QED BY <2>1, DisconnectStep
<1>10. CASE AfterConnection
  <2>1. ~Ended /\ ~Connected /\ Connected' = FALSE /\ Connected = FALSE /\ main \in {"cleanup", "timed_out", "raising"}
    BY <1>10 DEF AfterConnection, CleanedUp, InFinally, Ended, Connected, socketVars
  <2>2. CASE CloseAndEnd("stopped") /\ UNCHANGED reconnects
    BY <2>1, <2>2, CloseStep
  <2>3. CASE CloseAndEnd("crashed") /\ UNCHANGED reconnects
    BY <2>1, <2>3, CloseStep
  <2>4. CASE /\ reconnects' = reconnects + 1
             /\ IF WithinBudget(reconnects') THEN main' = "sleeping" /\ UNCHANGED outputVars
                ELSE GiveUp([kind |-> "give_up", reconnects |-> reconnects'])
    <3> DEFINE e == [kind |-> "give_up", reconnects |-> reconnects']
    <3>1. /\ events \in Seq(Events) /\ reconnects \in 0..MaxReconnects /\ reconnects \in Nat
          /\ reconnects + 1 \in Nat /\ MaxReconnects \in Nat
      BY <2>1, RecorderAssumption DEF OutputInv, LogInv, TaskInv
    <3>2. ConnectionInv(events, reconnects + 1, FALSE)
      BY <2>1, <3>1, MarkReconnect, Zenon DEF StreamInv
    <3>3. CASE main' = "sleeping" /\ UNCHANGED outputVars
      <4>1. ~Ended'
        BY <3>3 DEF Ended
      <4>2. OutputInv'
        BY <2>1, <3>3, <4>1, Zenon DEF OutputInv, outputVars
      <4>3. StreamInv'
        BY <2>1, <2>4, <3>2, <3>3, Zenon DEF StreamInv, outputVars
      <4>. QED BY <4>2, <4>3
    <3>4. CASE GiveUp(e)
      <4>1. e \in Events /\ ~IsMessage(e) /\ e.reconnects = reconnects + 1
        BY <2>4, <3>1 DEF Events, Kinds, IsMessage
      <4>. HIDE DEF e
      <4>2. LogInv(events, writer, lost, failures) /\ failures <= MaxFailures /\ Ready(writer)
        BY <2>1 DEF OutputInv
      <4>3. ConnectionInv(Append(events, e), reconnects + 1, FALSE)
        <5>1. PICK r \in Nat : r = reconnects + 1
          BY <3>1
        <5>2. ConnectionInv(events, r, FALSE)
          BY <3>2, <5>1, Zenon
        <5>3. e.reconnects <= r
          BY <4>1, <5>1
        <5>. QED BY <3>1, <4>1, <5>1, <5>2, <5>3, MarkEvent
      <4>w. PICK w : w = Written(writer, e)
        OBVIOUS
      <4>a. LogInv(Append(events, e), w, lost, failures) /\ Ready(w)
        BY <4>1, <4>2, <4>w, LogWritten
      <4>4. /\ events' = Append(events, e) /\ main' \in {"stopped", "crashed"}
            /\ LogInv(events', writer', lost', failures') /\ failures' <= MaxFailures
            /\ writer'.open => main' = "crashed" /\ writer'.flushed < Len(events')
        <5>1. CASE /\ main' = "stopped" /\ events' = Append(events, e) /\ writer' = Closed(w)
                   /\ UNCHANGED <<failures, lost>>
          <6>1. LogInv(Append(events, e), Closed(w), lost, failures) /\ ~Closed(w).open
            BY <4>a, LogClosed
          <6>. QED BY <4>2, <5>1, <6>1, Zenon
        <5>2. CASE CloseRaises(Append(events, e), w)
          BY <4>a, <5>2, CloseKeepsLog
        <5>3. CASE RecordCrashes(e)
          BY <4>1, <4>2, <5>3, CrashKeepsLog
        <5>. QED BY <3>4, <4>w, <5>1, <5>2, <5>3 DEF GiveUp
      <4>5. OutputInv'
        <5>1. Ended'
          BY <4>4 DEF Ended
        <5>. QED BY <4>4, <5>1, Zenon DEF OutputInv
      <4>6. StreamInv'
        BY <2>1, <2>4, <4>3, <4>4, Zenon DEF StreamInv
      <4>. QED BY <4>5, <4>6
    <3>. QED BY <2>4, <3>3, <3>4
  <2>. QED BY <1>10, <2>2, <2>3, <2>4 DEF AfterConnection
<1>11. CASE Wake
  BY <1>11, QuietStep DEF Wake, Ended, Connected, socketVars
<1>12. CASE HeartbeatWakes
  <2>1. /\ ~Ended /\ Ended' = Ended /\ reconnects' = reconnects /\ Connected' = Connected
        /\ UNCHANGED outputVars \/ Record(Event("heartbeat"))
    BY <1>12 DEF HeartbeatWakes, TaskInv, TasksAreOff, Alive, Ended, Connected, socketVars, Record
  <2>. QED BY <1>k, <2>1, QuietStep, RecordStep
<1>13. CASE WatchdogWakes
  <2>1. /\ ~Ended /\ Ended' = Ended /\ reconnects' = reconnects /\ Connected' = Connected
        /\ UNCHANGED outputVars \/ Record(Event("idle"))
    BY <1>13 DEF WatchdogWakes, TaskInv, TasksAreOff, Alive, Ended, Connected, socketVars, Record
  <2>. QED BY <1>k, <2>1, QuietStep, RecordStep
<1>14. CASE WatchdogDisconnects
  <2>1. ~Ended /\ Ended' = Ended /\ reconnects' = reconnects
    BY <1>14 DEF WatchdogDisconnects, TaskInv, TasksAreOff, Alive, Ended
  <2>2. CASE Disconnected
    BY <2>1, <2>2, DisconnectStep
  <2>3. CASE UNCHANGED <<socket, joining, outputVars>>
    BY <2>1, <2>3, QuietStep DEF Connected
  <2>. QED BY <1>14, <2>2, <2>3 DEF WatchdogDisconnects
<1>15. CASE SocketOpens
  <2>1. ~Ended /\ Ended' = Ended /\ UNCHANGED <<reconnects, outputVars>> /\ Connected = FALSE /\ Connected' = TRUE
    BY <1>15 DEF SocketOpens, Ended, Connected, taskVars
  <2>2. ConnectionInv(events, reconnects, TRUE)
    <3>1. events \in Seq(Events) /\ reconnects \in Nat
      BY RecorderAssumption DEF OutputInv, LogInv, TaskInv
    <3>. QED BY <2>1, <3>1, MarkReconnect, Zenon DEF StreamInv
  <2>. QED BY <2>1, <2>2, Zenon DEF OutputInv, StreamInv, outputVars
<1>16. CASE RoomsJoined
  <2>1. /\ ~Ended /\ ~Ended' /\ reconnects' = reconnects /\ Connected' = Connected /\ Record(Event("connect"))
    BY <1>16 DEF RoomsJoined, TaskInv, Alive, Ended, Connected, taskVars
  <2>. QED BY <1>k, <2>1, RecordStep
<1>17. CASE Message
  BY <1>17, MessageStep
<1>18. CASE Break
  BY <1>18, QuietStep DEF Break, Ended, Connected, taskVars
<1>19. CASE Notice
  <2>1. ~Ended /\ ~Ended' /\ reconnects' = reconnects /\ Disconnected
    BY <1>19 DEF Notice, TaskInv, Alive, Ended, Connected, taskVars
  <2>. QED BY <2>1, DisconnectStep
<1>20. CASE Tick
  BY <1>20, QuietStep DEF Tick, Ended, Connected, taskVars, socketVars
<1>21. CASE UNCHANGED vars
  BY <1>21, QuietStep DEF vars, Ended, Connected, taskVars, socketVars
<1>. QED
  BY <1>1, <1>2, <1>3, <1>4, <1>5, <1>6, <1>7, <1>8, <1>9, <1>10, <1>11, <1>12, <1>13, <1>14, <1>15,
     <1>16, <1>17, <1>18, <1>19, <1>20, <1>21 DEF Next

(* The invariant holds of every state of the recorder. *)
LEMMA Invariance == Spec => []Inv
<1>1. Init => Inv
  BY InvInit
<1>2. Inv /\ [Next]_vars => Inv'
  BY InvStep
<1>. QED BY <1>1, <1>2, PTL DEF Spec

-------------------------------------------------------------------------------
(* The values of the state (TypeOK), whatever the network, the timers and  *)
(* the disk do; among them, that the writer counts each event of the list  *)
(* but for one at most for each failure (write and _record).               *)
THEOREM RecorderTypeCorrect == Spec => []TypeOK
<1>1. Inv => TypeOK
  <2> SUFFICES ASSUME Inv
               PROVE  TypeOK
    OBVIOUS
  <2>1. /\ events \in Seq(Events) /\ WriterInv(writer) /\ lost \in SUBSET (1..Len(events))
        /\ writer.total <= Len(events) /\ Len(events) - writer.total <= failures /\ failures \in 0..MaxFailures
    BY RecorderAssumption DEF Inv, OutputInv, LogInv, TailInv
  <2>2. \A i \in 1..Len(events) : IsEvent(events[i])
    <3>1. \A i \in 1..Len(events) : events[i] \in Events
      BY <2>1
    <3>. QED BY <3>1, Zenon DEF IsEvent, Events
  <2>3. Len(writer.files) \in {writer.index, writer.index + 1}
    BY <2>1 DEF WriterInv
  <2>. QED BY <2>1, <2>2, <2>3 DEF Inv, TaskInv, TypeOK
<1>. QED BY <1>1, Invariance, PTL

(* The files hold the recorded events, each once and in order, but for a   *)
(* flush interval of events at most for each write or closing that failed, *)
(* wherever the rotations and the reconnects fell.                         *)
THEOREM FilesAreComplete == Spec => []RecordingIsComplete
<1>1. Inv => RecordingIsComplete
  <2> SUFFICES ASSUME Inv
               PROVE  RecordingIsComplete
    OBVIOUS
  <2>1. /\ events \in Seq(Events) /\ lost \in SUBSET (1..Len(events)) /\ failures \in Nat
        /\ Holds(OnDisk(writer), events, lost) /\ TailInv(Len(events), writer, failures)
    BY DEF Inv, OutputInv, LogInv
  <2>2. Len(OnDisk(writer)) = Cardinality(Kept(events, lost))
        /\ Len(events) - Len(OnDisk(writer)) <= FlushEvery * failures
    BY <2>1, Zenon DEF Holds, TailInv
  <2>3. PICK n \in Nat, z \in Nat, k \in Nat, c \in Nat :
          n = Len(events) /\ z = Len(OnDisk(writer)) /\ k = Cardinality(lost) /\ c = FlushEvery * failures
    <3>1. Cardinality(Kept(events, lost)) \in Nat /\ Cardinality(lost) \in Nat
      BY <2>1, KeptIsFinite
    <3>2. FlushEvery * failures \in Nat /\ Len(events) \in Nat
      BY <2>1, WriterAssumption
    <3>. QED BY <2>2, <3>1, <3>2, Zenon
  <2>4. z = n - k /\ n - z <= c
    BY <2>1, <2>2, <2>3, KeptIsFinite, Zenon
  <2>5. k <= c
    BY <2>4
  <2>. QED BY <2>1, <2>3, <2>5, Zenon DEF Holds, Kept, UpTo, RecordingIsComplete
<1>. QED BY <1>1, Invariance, PTL

(* No file is longer than rotate_every_events and rotate_every_bytes say,  *)
(* but for a single event that is.                                         *)
THEOREM RotationKeepsLimits == Spec => []FilesKeepTheirLimits
<1>1. Inv => FilesKeepTheirLimits
  BY Zenon DEF Inv, OutputInv, LogInv, WriterInv, FileKeepsLimits, FilesKeepTheirLimits
<1>. QED BY <1>1, Invariance, PTL

(* What a killed process loses is less than flush_every_events, and as     *)
(* many again for each write or closing that failed.                       *)
THEOREM TailIsBounded == Spec => []TailLossIsBounded
<1>1. Inv => TailLossIsBounded
  <2> SUFFICES ASSUME Inv
               PROVE  TailLossIsBounded
    OBVIOUS
  <2>1. TailInv(Len(events), writer, failures) /\ failures \in Nat /\ writer \in Writers /\ events \in Seq(Events)
    BY DEF Inv, OutputInv, LogInv, WriterInv
  <2>2. PICK t \in Nat, f \in Nat, n \in Nat : t = writer.total /\ f = writer.flushed /\ n = Len(events)
    <3>1. writer.total \in Nat /\ writer.flushed \in Nat /\ Len(events) \in Nat
      BY <2>1 DEF Writers
    <3>. QED BY <3>1, Zenon
  <2>3. PICK x \in Nat, c \in Nat, d \in Nat :
          x = t % FlushEvery /\ x < FlushEvery /\ c = FlushEvery * failures /\ d = FlushEvery
    <3>1. t % FlushEvery \in Nat /\ t % FlushEvery < FlushEvery
      BY RemainderCounts, WriterAssumption
    <3>2. FlushEvery * failures \in Nat /\ FlushEvery \in Nat
      BY <2>1, WriterAssumption
    <3>. QED BY <3>1, <3>2, Zenon
  <2>4. FlushEvery * (1 + failures) = d + c
    BY <2>1, <2>3, WriterAssumption
  <2>5. n - f <= x + c /\ x < d
    BY <2>1, <2>2, <2>3, Zenon DEF TailInv
  <2>6. n - f < d + c
    BY <2>5
  <2>. QED BY <2>2, <2>4, <2>6 DEF TailLossIsBounded
<1>. QED BY <1>1, Invariance, PTL

(* In the files there is between messages of two connections the           *)
(* disconnect of the first, in whatever order the main task, the watchdog  *)
(* and the client's handlers took turns, or a write that failed has lost   *)
(* it: separated in the list (ConnectionInv), and the files keep the order *)
(* of the list (Holds).                                                    *)
THEOREM ConnectionsAreMarked == Spec => []ConnectionsAreSeparated
<1>1. ASSUME Inv
      PROVE  ConnectionsAreSeparated
  <2>d. PICK disk : disk = OnDisk(writer)
    OBVIOUS
  <2>k. PICK kept : kept = Kept(events, lost)
    OBVIOUS
  <2>1. /\ kept \in SUBSET Nat /\ IsFiniteSet(kept) /\ kept = (1..Len(events)) \ lost
        /\ Len(disk) = Cardinality(kept)
        /\ \A i \in kept : disk[Cardinality(UpTo(kept, i))] = events[i]
    <3>1. events \in Seq(Events) /\ lost \in SUBSET (1..Len(events)) /\ Holds(disk, events, lost)
      BY <1>1, <2>d DEF Inv, OutputInv, LogInv
    <3>2. kept \in SUBSET Nat /\ IsFiniteSet(kept)
      BY <2>k, <3>1, KeptIsFinite
    <3>. QED BY <2>k, <3>1, <3>2, Zenon DEF Holds, Kept
  <2>2. Separated(events)
    BY <1>1 DEF Inv, StreamInv, ConnectionInv
  <2> SUFFICES ASSUME NEW m \in 1..Len(disk), NEW n \in 1..Len(disk), m < n,
                      IsMessage(disk[m]), IsMessage(disk[n]), disk[m].reconnects # disk[n].reconnects
               PROVE  \/ \E k \in m..n : disk[k] = EndOf(disk[m])
                      \/ \E k \in lost : events[k] = EndOf(disk[m])
    BY <2>d, Zenon DEF ConnectionsAreSeparated
  <2>3. PICK i \in kept : Cardinality(UpTo(kept, i)) = m
    BY <2>1, PlacesAreTaken
  <2>4. PICK j \in kept : Cardinality(UpTo(kept, j)) = n
    BY <2>1, PlacesAreTaken
  <2>5. disk[m] = events[i] /\ disk[n] = events[j]
    BY <2>1, <2>3, <2>4, Zenon
  <2>6. i < j /\ i \in 1..Len(events) /\ j \in 1..Len(events)
    <3>1. i \in Nat /\ j \in Nat /\ i \in 1..Len(events) /\ j \in 1..Len(events)
      BY <2>1
    <3>2. j <= i => n <= m
      BY <2>1, <2>3, <2>4, PlacesAreOrdered
    <3>. QED BY <3>1, <3>2
  <2>7. PICK k \in i..j : events[k] = EndOf(events[i])
    BY <2>2, <2>5, <2>6, Zenon DEF Separated
  <2>8. k \in 1..Len(events) /\ i <= k /\ k <= j
    BY <2>6
  <2>9. CASE k \in lost
    BY <2>5, <2>7, <2>9
  <2>10. CASE k \notin lost
    <3>1. k \in kept
      BY <2>1, <2>8, <2>10
    <3>2. disk[Cardinality(UpTo(kept, k))] = EndOf(disk[m])
      BY <2>1, <2>5, <2>7, <3>1, Zenon
    <3>3. m <= Cardinality(UpTo(kept, k)) /\ Cardinality(UpTo(kept, k)) <= n
      BY <2>1, <2>3, <2>4, <2>8, <3>1, PlacesAreOrdered
    <3>4. Cardinality(UpTo(kept, k)) \in m..n
      <4>1. Cardinality(UpTo(kept, k)) \in Int
        BY <2>1, <3>1, PlacesAreOrdered
      <4>. QED BY <3>3, <4>1
    <3>. QED BY <3>2, <3>4
  <2>. QED BY <2>9, <2>10
<1>. QED BY <1>1, Invariance, PTL

(* run() returns with no task, no connection and no open file left, and    *)
(* raises with the file closed unless flushing it has failed.              *)
THEOREM RunCleansUp == Spec => []NothingLeftBehind
<1>1. Inv => NothingLeftBehind
  BY DEF Inv, TaskInv, OutputInv, Ended, NothingLeftBehind
<1>. QED BY <1>1, Invariance, PTL
===============================================================================
