---------------------------- MODULE ServerProofs ----------------------------
(***************************************************************************)
(* Machine-checked proofs about the server, for every set of subscribers   *)
(* and traders, every number of orders and of results of an order.         *)
(***************************************************************************)
EXTENDS Server, SequenceLemmas

-----------------------------------------------------------------------------
(* The inductive invariant. *)

Link == {"none", "up", "down"}

MdSession == [link : Link, reg : BOOLEAN, pending : Nat, has_pending : BOOLEAN,
              writing : BOOLEAN, wr : Seq(Nat), seen : Nat]

Result == Nat

OeSession == [link : Link, reg : BOOLEAN, wq : Seq(Result), writing : BOOLEAN,
              wr : Seq(Nat), up : Nat, got : Seq(Result)]

Handler == [results : [Traders -> Seq(Result)], snapshot : Seq(Nat)]

Typed ==
    /\ running \in BOOLEAN
    /\ md \in [Subscribers -> MdSession]
    /\ oe \in [Traders -> OeSession]
    /\ listener \subseteq Traders
    /\ inbound \in Seq(Traders)
    /\ posted \in Seq(Handler)
    /\ book \in Nat /\ latest_book \in Nat /\ 1 <= latest_book /\ latest_book <= book
    /\ produced \in [Traders -> Nat] /\ orders \in Nat

\* There is a writer exactly while the session says so; it has not started
\* (0) or writes w.
Writer(s, w) == s.writing /\ s.wr = <<w>>
NoWriter(s) == ~s.writing /\ s.wr = <<>>

(***************************************************************************)
(* The session s when b is the latest book: no book that it holds is newer *)
(* than b or older than what it was sent before, and the newest of them is *)
(* b itself as long as the subscriber is connected.                        *)
(***************************************************************************)
MdOK(s, b) ==
    /\ s.link = "none" => s.seen = 0
    /\ s.seen <= b /\ s.pending <= b
    /\ s.has_pending => s.pending \in 1..b /\ s.seen <= s.pending
    /\ \/ /\ NoWriter(s)
          /\ s.reg /\ s.link = "up" => ~s.has_pending /\ s.seen = b
       \/ /\ Writer(s, 0) /\ s.has_pending
          /\ s.reg /\ s.link = "up" => s.pending = b
       \/ \E w \in 1..b :
            /\ Writer(s, w) /\ s.seen <= w
            /\ s.has_pending => w <= s.pending
            /\ s.reg /\ s.link = "up" => b = IF s.has_pending THEN s.pending ELSE w

Numbers(n) == [i \in 1..n |-> i]

(***************************************************************************)
(* The session s with the results rest in posted handlers, when n results  *)
(* have been produced for the trader.                                      *)
(***************************************************************************)
OeOK(s, rest, n) ==
    /\ s.link = "none" => ~s.reg /\ NoWriter(s)
    /\ \/ NoWriter(s) /\ (s.link # "down" => s.wq = <<>>)
       \/ s.wq # <<>> /\ (Writer(s, 0) \/ Writer(s, Head(s.wq)))
    /\ s.link # "down" => /\ Cat(Cat(s.got, s.wq), rest) = Numbers(n)
                          /\ ~s.reg => n = 0

ResultsOf(p, c) == [i \in DOMAIN p |-> p[i].results[c]]

Rest(p, c) == FlattenSeq(ResultsOf(p, c))

\* Only a trader whose session was registered has orders in inbound_.
SentByRegistered ==
    \A i \in 1..Len(inbound) :
        oe[inbound[i]].link # "down" => oe[inbound[i]].reg

\* OeListener shakes hands with a trader that has connected.
ListenerOK == \A c \in listener : oe[c].link # "none"

(***************************************************************************)
(* The posted snapshots ascend from latest_book to book.                   *)
(***************************************************************************)
SnapshotsAscend(p, l, b) ==
    /\ \A i \in 1..Len(p) : p[i].snapshot # <<>> =>
         /\ Len(p[i].snapshot) = 1 /\ l < p[i].snapshot[1] /\ p[i].snapshot[1] <= b
         /\ \A j \in 1..Len(p) : p[j].snapshot # <<>> /\ i < j =>
                p[i].snapshot[1] < p[j].snapshot[1]
    /\ l = b \/ \E i \in 1..Len(p) : p[i].snapshot # <<>> /\ p[i].snapshot[1] = b

IInv ==
    /\ Typed
    /\ \A m \in Subscribers : MdOK(md[m], latest_book)
    /\ \A c \in Traders : OeOK(oe[c], Rest(posted, c), produced[c])
    /\ SentByRegistered
    /\ ListenerOK
    /\ SnapshotsAscend(posted, latest_book, book)

-----------------------------------------------------------------------------
(* Sessions: what each operation makes of one. *)

(***************************************************************************)
(* The list of writers when one is spawned, moves on or finishes.          *)
(***************************************************************************)
LEMMA WriterList ==
    ASSUME NEW v \in Nat, NEW w \in Nat
    PROVE  /\ Append(<<>>, v) = <<v>> /\ <<v>> \in Seq(Nat) /\ <<>> \in Seq(Nat)
           /\ <<v>> # <<>> /\ DOMAIN <<v>> = {1} /\ <<v>>[1] = v
           /\ [<<v>> EXCEPT ![1] = w] = <<w>>
           /\ RemoveAt(<<v>>, 1) = <<>>
           /\ <<v>> = <<w>> => v = w
<1>1. <<v>> \in Seq(Nat) /\ Len(<<v>>) = 1 /\ 1 \in 1..Len(<<v>>)
  OBVIOUS
<1>2. RemoveAt(<<v>>, 1) = <<>>
  BY <1>1, RemoveAtSingle
<1>3. [<<v>> EXCEPT ![1] = w] = <<w>>
  OBVIOUS
<1>4. DOMAIN <<v>> = {1} /\ <<v>>[1] = v /\ Append(<<>>, v) = <<v>> /\ <<v>> # <<>>
  OBVIOUS
<1>5. <<>> \in Seq(Nat) /\ (<<v>> = <<w>> => v = w)
  OBVIOUS
<1>6. QED
  BY <1>1, <1>2, <1>3, <1>4, <1>5

(***************************************************************************)
(* Offering the latest book to a session that had an older one.            *)
(***************************************************************************)
LEMMA OfferOK ==
    ASSUME NEW s \in MdSession, NEW a \in Nat, NEW b \in Nat, a <= b, 1 <= b, MdOK(s, a)
    PROVE  Offer(s, b) \in MdSession /\ MdOK(Offer(s, b), b) /\ Offer(s, b).seen = s.seen
<1> DEFINE t == Offer(s, b)
<1>1. /\ t.link = s.link /\ t.reg = s.reg /\ t.seen = s.seen
      /\ t.pending = b /\ t.has_pending /\ t.writing
      /\ t.wr = IF s.writing THEN s.wr ELSE Append(s.wr, 0)
  BY DEF Offer, MdSession
<1>2. CASE NoWriter(s)
  <2>1. t.wr = <<0>>
    BY <1>1, <1>2, WriterList DEF NoWriter
  <2>2. t \in MdSession
    BY <2>1, WriterList DEF Offer, MdSession
  <2>3. s.seen <= b /\ (s.link = "none" => s.seen = 0)
    <3>1. s.seen \in Nat
      BY DEF MdSession
    <3>2. s.seen <= a /\ (s.link = "none" => s.seen = 0)
      BY DEF MdOK
    <3>3. QED
      BY <3>1, <3>2
  <2>4. MdOK(t, b)
    <3> HIDE DEF t
    <3>1. Writer(t, 0)
      BY <1>1, <2>1 DEF Writer
    <3>2. t.pending \in 1..b /\ t.pending <= b /\ t.seen <= t.pending /\ t.seen <= b
      BY <1>1, <2>3
    <3>3. QED
      BY <1>1, <2>3, <3>1, <3>2, Zenon DEF MdOK
  <2>5. QED
    BY <1>1, <2>2, <2>4
<1>3. CASE \E w \in Nat : Writer(s, w)
  <2>1. t.wr = s.wr
    BY <1>1, <1>3 DEF Writer
  <2>2. t \in MdSession
    BY <1>3 DEF Offer, MdSession, Writer
  <2>3. MdOK(t, b)
    <3> HIDE DEF t
    <3> QED
      BY <1>1, <1>3, <2>1, WriterList DEF MdOK, Writer, NoWriter, MdSession
  <2>4. QED
    BY <1>1, <2>2, <2>3
<1>4. QED
  BY <1>2, <1>3 DEF MdOK

(***************************************************************************)
(* The writer moves on: it has just started, or has written its snapshot.  *)
(***************************************************************************)
LEMMA MdWriterOne ==
    ASSUME NEW s \in MdSession, NEW b \in Nat, MdOK(s, b), NEW i \in DOMAIN s.wr
    PROVE  i = 1 /\ Writer(s, s.wr[1]) /\ s.wr[1] \in Nat /\ s.wr = <<s.wr[1]>>
<1>1. CASE NoWriter(s)
  BY <1>1 DEF NoWriter
<1>2. CASE \E w \in Nat : Writer(s, w)
  <2>1. PICK w \in Nat : Writer(s, w)
    BY <1>2
  <2>2. QED
    BY <2>1, WriterList DEF Writer
<1>3. QED
  BY <1>1, <1>2 DEF MdOK

\* A writer that starts takes the pending book, or ends.
LEMMA MdWriterStartOK ==
    ASSUME NEW s \in MdSession, NEW b \in Nat, 1 <= b, MdOK(s, b),
           NEW i \in DOMAIN s.wr, s.wr[i] = 0
    PROVE  /\ MdWriterLoop(s, i) \in MdSession /\ MdOK(MdWriterLoop(s, i), b)
           /\ MdWriterLoop(s, i).seen = s.seen
<1> DEFINE t == MdWriterLoop(s, i)
<1>1. i = 1 /\ s.wr = <<0>> /\ s.writing
  BY MdWriterOne DEF Writer
<1>2. s.has_pending /\ s.pending \in 1..b /\ s.seen <= s.pending /\ s.seen <= b
      /\ (s.link = "none" => s.seen = 0) /\ (s.reg /\ s.link = "up" => s.pending = b)
  <2>1. ~NoWriter(s) /\ \A w \in 1..b : ~Writer(s, w)
    BY <1>1, WriterList DEF NoWriter, Writer
  <2>2. QED
    BY <2>1 DEF MdOK
<1>3. [s.wr EXCEPT ![i] = s.pending] = <<s.pending>>
  BY <1>1, <1>2, WriterList
<1>4. t = [s EXCEPT !.wr = <<s.pending>>, !.has_pending = FALSE]
  BY <1>2, <1>3 DEF MdWriterLoop, MdSession
<1>5. /\ t.link = s.link /\ t.reg = s.reg /\ t.seen = s.seen /\ ~t.has_pending
      /\ t.writing = s.writing /\ t.wr = <<s.pending>> /\ t.pending = s.pending
  BY <1>4 DEF MdSession
<1>6. t \in MdSession
  <2>1. <<s.pending>> \in Seq(Nat)
    BY <1>2, WriterList
  <2>2. QED
    BY <1>4, <2>1 DEF MdSession
<1>7. MdOK(t, b)
  <2> HIDE DEF t
  <2>1. Writer(t, s.pending)
    BY <1>1, <1>5 DEF Writer
  <2>2. QED
    BY <1>2, <1>5, <2>1 DEF MdOK
<1>8. QED
  BY <1>5, <1>6, <1>7

\* A writer that has written goes on with a book at least as new, or ends.
LEMMA MdWriterDoneOK ==
    ASSUME NEW s \in MdSession, NEW b \in Nat, 1 <= b, MdOK(s, b),
           NEW i \in DOMAIN s.wr, s.wr[i] # 0
    PROVE  LET t == MdWriterLoop(MdReceive(s, i), i)
           IN  t \in MdSession /\ MdOK(t, b) /\ t.seen >= s.seen
<1> DEFINE seen == IF s.link = "up" THEN s.wr[i] ELSE s.seen
           u == MdReceive(s, i)
           t == MdWriterLoop(u, i)
           w == s.wr[1]
<1>1. /\ i = 1 /\ s.wr = <<w>> /\ s.writing /\ w \in Nat /\ w # 0 /\ Writer(s, w)
      /\ s.seen \in Nat /\ seen \in Nat
  BY MdWriterOne DEF Writer, MdSession
<1>2. /\ w \in 1..b /\ s.seen <= w /\ (s.link = "none" => s.seen = 0)
      /\ s.has_pending => s.pending \in 1..b /\ s.seen <= s.pending /\ w <= s.pending
      /\ s.reg /\ s.link = "up" => b = IF s.has_pending THEN s.pending ELSE w
  <2>1. ~NoWriter(s) /\ ~Writer(s, 0) /\ \A v \in 1..b : Writer(s, v) => v = w
    BY <1>1, WriterList DEF NoWriter, Writer
  <2> HIDE DEF w
  <2>2. QED
    BY <2>1 DEF MdOK
<1>3. /\ u \in MdSession /\ u.wr = s.wr /\ u.link = s.link /\ u.reg = s.reg /\ u.seen = seen
      /\ u.pending = s.pending /\ u.has_pending = s.has_pending /\ u.writing = s.writing
  BY <1>1 DEF MdReceive, MdSession
<1>4. /\ s.seen <= seen /\ seen <= w /\ (s.link = "none" => seen = 0)
      /\ s.link = "up" => seen = w
  BY <1>1, <1>2
<1> HIDE DEF u, w, seen
<1>5. CASE s.has_pending
  <2>1. t = [u EXCEPT !.wr = <<s.pending>>, !.has_pending = FALSE]
    <3>1. [u.wr EXCEPT ![i] = u.pending] = <<s.pending>>
      BY <1>1, <1>2, <1>3, <1>5, WriterList
    <3>2. QED
      BY <1>3, <1>5, <3>1 DEF MdWriterLoop, MdSession
  <2>2. /\ t.link = s.link /\ t.reg = s.reg /\ t.seen = seen /\ ~t.has_pending
        /\ t.writing = s.writing /\ t.wr = <<s.pending>> /\ t.pending = s.pending
    BY <1>3, <2>1 DEF MdSession
  <2>3. t \in MdSession
    <3>1. <<s.pending>> \in Seq(Nat)
      BY <1>2, <1>5, WriterList
    <3>2. QED
      BY <1>3, <2>1, <3>1 DEF MdSession
  <2> HIDE DEF t
  <2>4. Writer(t, s.pending)
    BY <1>1, <2>2 DEF Writer
  <2>5. s.pending \in 1..b /\ seen <= s.pending /\ seen <= b
    BY <1>1, <1>2, <1>4, <1>5
  <2>6. MdOK(t, b)
    BY <1>2, <1>4, <1>5, <2>2, <2>4, <2>5 DEF MdOK
  <2>7. QED
    BY <1>1, <1>4, <2>2, <2>3, <2>6 DEF t, u
<1>6. CASE ~s.has_pending
  <2>1. t = [u EXCEPT !.wr = <<>>, !.writing = FALSE]
    <3>1. RemoveAt(u.wr, i) = <<>>
      BY <1>1, <1>3, WriterList
    <3>2. QED
      BY <1>3, <1>6, <3>1 DEF MdWriterLoop, MdSession
  <2>2. /\ t.link = s.link /\ t.reg = s.reg /\ t.seen = seen /\ ~t.has_pending
        /\ ~t.writing /\ t.wr = <<>> /\ t.pending = s.pending
    BY <1>3, <1>6, <2>1 DEF MdSession
  <2>3. t \in MdSession
    BY <1>3, <2>1, WriterList DEF MdSession
  <2> HIDE DEF t
  <2>4. NoWriter(t)
    BY <2>2 DEF NoWriter
  <2>5. seen <= b /\ s.pending <= b /\ (s.reg /\ s.link = "up" => seen = b)
    <3>1. s.pending <= b
      BY DEF MdOK
    <3>2. QED
      BY <1>1, <1>2, <1>4, <1>6, <3>1
  <2>6. MdOK(t, b)
    BY <1>4, <2>2, <2>4, <2>5 DEF MdOK
  <2>7. QED
    BY <1>1, <1>4, <2>2, <2>3, <2>6 DEF t, u
<1>7. QED
  BY <1>5, <1>6

(***************************************************************************)
(* The writer gives up, or the session or the connection ends.             *)
(***************************************************************************)
LEMMA MdWriterFailsOK ==
    ASSUME NEW s \in MdSession, NEW b \in Nat, MdOK(s, b), NEW i \in DOMAIN s.wr,
           s.link = "down"
    PROVE  LET t == [s EXCEPT !.wr = RemoveAt(@, i), !.writing = FALSE]
           IN  t \in MdSession /\ MdOK(t, b) /\ t.seen = s.seen
<1> DEFINE t == [s EXCEPT !.wr = RemoveAt(@, i), !.writing = FALSE]
<1>1. RemoveAt(s.wr, i) = <<>>
  <2>1. i = 1 /\ s.wr[1] \in Nat /\ s.wr = <<s.wr[1]>>
    BY MdWriterOne
  <2>2. RemoveAt(<<s.wr[1]>>, 1) = <<>>
    BY <2>1, WriterList
  <2>3. QED
    BY <2>1, <2>2
<1>2. t = [s EXCEPT !.wr = <<>>, !.writing = FALSE]
  BY <1>1 DEF MdSession
<1>3. /\ t.link = "down" /\ t.seen = s.seen /\ t.has_pending = s.has_pending
      /\ t.pending = s.pending /\ NoWriter(t)
  BY <1>2 DEF MdSession, NoWriter
<1>4. t \in MdSession
  BY <1>2, WriterList DEF MdSession
<1> HIDE DEF t
<1>5. MdOK(t, b)
  BY <1>3 DEF MdOK
<1>6. QED
  BY <1>3, <1>4, <1>5 DEF t

\* A lost link disturbs no other part of a session.
LEMMA MdDownOK ==
    ASSUME NEW s \in MdSession, NEW b \in Nat, MdOK(s, b), NEW t \in MdSession,
           t.link = "down", t.pending = s.pending, t.has_pending = s.has_pending,
           t.writing = s.writing, t.wr = s.wr, t.seen = s.seen
    PROVE  MdOK(t, b)
BY DEF MdOK, Writer, NoWriter

(***************************************************************************)
(* The next results of a trader are numbered on from its earlier ones.     *)
(***************************************************************************)
LEMMA CountOn ==
    ASSUME NEW n \in Nat, NEW k \in Nat
    PROVE  Cat(Numbers(n), [i \in 1..k |-> n + i]) = Numbers(n + k)
<1> DEFINE a == [i \in 1..n |-> i]
           b == [i \in 1..k |-> n + i]
           c == [i \in 1..(n + k) |-> i]
<1>1. /\ a \in Seq(Nat) /\ Len(a) = n /\ b \in Seq(Nat) /\ Len(b) = k
      /\ c \in Seq(Nat) /\ Len(c) = n + k
      /\ \A i \in 1..n : a[i] = i
      /\ \A i \in 1..k : b[i] = n + i
      /\ \A i \in 1..(n + k) : c[i] = i
  OBVIOUS
<1> HIDE DEF a, b, c
<1>2. /\ a \o b \in Seq(Nat) /\ Len(a \o b) = n + k
      /\ \A i \in 1..(n + k) : (a \o b)[i] = IF i <= n THEN a[i] ELSE b[i - n]
  BY <1>1, ConcatProperties
<1>3. \A i \in 1..(n + k) : (a \o b)[i] = c[i]
  <2> TAKE i \in 1..(n + k)
  <2>1. CASE i <= n
    BY <1>1, <1>2, <2>1
  <2>2. CASE ~(i <= n)
    <3>1. i - n \in 1..k /\ n + (i - n) = i /\ ~(i <= n)
      BY <2>2
    <3>2. b[i - n] = n + (i - n)
      BY <1>1, <3>1
    <3>3. QED
      BY <1>1, <1>2, <3>1, <3>2
  <2>3. QED
    BY <2>1, <2>2, Zenon
<1>4. a \o b = c
  BY <1>1, <1>2, <1>3, SeqEqual
<1>5. QED
  BY <1>4 DEF a, b, c, Numbers, Cat

(***************************************************************************)
(* A session has at most one writer, which writes the front of its queue.  *)
(***************************************************************************)
LEMMA OeWriterOne ==
    ASSUME NEW s \in OeSession, NEW rest, NEW n, OeOK(s, rest, n), NEW i \in DOMAIN s.wr
    PROVE  /\ i = 1 /\ s.link # "none" /\ s.writing /\ s.wr = <<s.wr[1]>> /\ s.wr[1] \in Nat
           /\ s.wq # <<>> /\ (s.wr[1] = 0 \/ s.wr[1] = Head(s.wq)) /\ Head(s.wq) \in Nat
<1>1. ~NoWriter(s)
  BY DEF NoWriter
<1>2. s.link # "none" /\ s.wq # <<>> /\ (Writer(s, 0) \/ Writer(s, Head(s.wq)))
  BY <1>1 DEF OeOK
<1>3. Head(s.wq) \in Nat
  BY <1>2 DEF OeSession, Result
<1>4. PICK w \in Nat : Writer(s, w) /\ (w = 0 \/ w = Head(s.wq))
  BY <1>2, <1>3
<1>5. s.writing /\ s.wr = <<w>> /\ s.wr[1] = w /\ i = 1
  BY <1>4, WriterList DEF Writer
<1>6. QED
  BY <1>2, <1>3, <1>4, <1>5

(***************************************************************************)
(* Publishing the results h of a posted handler to a registered session,   *)
(* and to one that is not registered or has none of them.                  *)
(***************************************************************************)
LEMMA EnqueueOK ==
    ASSUME NEW s \in OeSession, NEW h \in Seq(Result), h # <<>>, NEW rest \in Seq(Result),
           NEW n \in Nat, OeOK(s, Cat(h, rest), n), s.reg
    PROVE  Enqueue(s, h) \in OeSession /\ OeOK(Enqueue(s, h), rest, n)
           /\ Enqueue(s, h).link = s.link /\ Enqueue(s, h).reg = s.reg
<1> DEFINE t == Enqueue(s, h)
<1>1. s.wq \in Seq(Result) /\ s.got \in Seq(Result) /\ s.wr \in Seq(Nat)
  BY DEF OeSession
<1>2. /\ t.link = s.link /\ t.reg = s.reg /\ t.got = s.got /\ t.up = s.up
      /\ t.wq = Cat(s.wq, h) /\ t.writing
      /\ t.wr = IF s.writing THEN s.wr ELSE Append(s.wr, 0)
  BY DEF Enqueue, OeSession, Cat
<1>3. Cat(s.wq, h) \in Seq(Result) /\ Cat(s.wq, h) # <<>>
  <2>1. Cat(s.wq, h) \in Seq(Result)
    BY <1>1, CatSeq
  <2>2. QED
    BY <1>1, <2>1, NothingInside
<1>4. (s.writing => s.wr \in Seq(Nat)) /\ (~s.writing => Append(s.wr, 0) \in Seq(Nat))
  BY <1>1
<1>5. t \in OeSession
  BY <1>3, <1>4 DEF Enqueue, OeSession, Cat
<1> HIDE DEF t
<1>6. s.link # "down" => Cat(Cat(t.got, t.wq), rest) = Numbers(n)
  <2>1. Cat(Cat(s.got, s.wq), Cat(h, rest)) = Cat(Cat(s.got, Cat(s.wq, h)), rest)
    BY <1>1, Regroup
  <2>2. QED
    BY <1>2, <2>1 DEF OeOK
<1>7. Writer(t, 0) \/ Writer(t, Head(t.wq))
  <2>1. CASE NoWriter(s)
    <3>1. t.wr = <<0>>
      BY <1>2, <2>1, WriterList DEF NoWriter
    <3>2. QED
      BY <1>2, <3>1 DEF Writer
  <2>2. CASE Writer(s, 0)
    BY <1>2, <2>2 DEF Writer
  <2>3. CASE s.wq # <<>> /\ Writer(s, Head(s.wq))
    <3>1. Head(t.wq) = Head(s.wq)
      BY <1>1, <1>2, <2>3, HeadOfConcat
    <3>2. QED
      BY <1>2, <2>3, <3>1 DEF Writer
  <2>4. QED
    BY <2>1, <2>2, <2>3 DEF OeOK
<1>8. OeOK(t, rest, n)
  BY <1>2, <1>3, <1>6, <1>7 DEF OeOK
<1>9. QED
  BY <1>2, <1>5, <1>8 DEF t

\* Results that do not reach a session that is not registered are no loss.
LEMMA SkipOK ==
    ASSUME NEW s \in OeSession, NEW h \in Seq(Result), NEW rest \in Seq(Result),
           NEW n \in Nat, OeOK(s, Cat(h, rest), n), h = <<>> \/ ~s.reg
    PROVE  OeOK(s, rest, n)
<1>1. s.wq \in Seq(Result) /\ s.got \in Seq(Result)
  BY DEF OeSession
<1>2. ASSUME s.link # "down"
      PROVE  Cat(Cat(s.got, s.wq), rest) = Numbers(n) /\ (~s.reg => n = 0)
  <2>1. Cat(Cat(s.got, s.wq), Cat(h, rest)) = Numbers(n) /\ (~s.reg => n = 0)
    BY <1>2 DEF OeOK
  <2>2. CASE h = <<>>
    <3>1. Cat(h, rest) = rest
      BY <2>2, CatSeq
    <3>2. QED
      BY <2>1, <3>1
  <2>3. CASE ~s.reg
    <3>1. Numbers(n) = <<>>
      BY <2>1, <2>3 DEF Numbers
    <3>2. Cat(s.got, s.wq) \in Seq(Result) /\ Cat(h, rest) \in Seq(Result)
      BY <1>1, CatSeq
    <3>3. Cat(h, rest) = <<>>
      BY <2>1, <3>1, <3>2, NothingInside
    <3>4. Cat(h, rest) = rest
      BY <3>3, NothingInside
    <3>5. QED
      BY <2>1, <3>4
  <2>4. QED
    BY <2>2, <2>3
<1>3. QED
  BY <1>2 DEF OeOK

(***************************************************************************)
(* The engine produces k results for the trader.                           *)
(***************************************************************************)
LEMMA ProduceOK ==
    ASSUME NEW s \in OeSession, NEW rest \in Seq(Result), NEW n \in Nat, NEW k \in Nat,
           OeOK(s, rest, n), k > 0 /\ s.link # "down" => s.reg
    PROVE  OeOK(s, Cat(rest, [i \in 1..k |-> n + i]), n + k)
<1> DEFINE new == [i \in 1..k |-> n + i]
<1>1. s.wq \in Seq(Result) /\ s.got \in Seq(Result)
  BY DEF OeSession
<1>2. new \in Seq(Result)
  BY DEF Result
<1>3. Cat(Numbers(n), new) = Numbers(n + k)
  BY CountOn
<1> HIDE DEF new
<1>4. Cat(Cat(s.got, s.wq), Cat(rest, new)) = Cat(Cat(Cat(s.got, s.wq), rest), new)
  BY <1>1, <1>2, Regroup
<1>5. ASSUME s.link # "down"
      PROVE  Cat(Cat(s.got, s.wq), Cat(rest, new)) = Numbers(n + k) /\ (~s.reg => n + k = 0)
  <2>1. Cat(Cat(s.got, s.wq), rest) = Numbers(n) /\ (~s.reg => n = 0)
    BY <1>5 DEF OeOK
  <2>2. Cat(Cat(s.got, s.wq), Cat(rest, new)) = Numbers(n + k)
    BY <1>3, <1>4, <2>1
  <2>3. ~s.reg => n + k = 0
    BY <1>5, <2>1
  <2>4. QED
    BY <2>2, <2>3
<1>6. QED
  BY <1>5 DEF OeOK, new

(***************************************************************************)
(* The writer starts: there is something for it to write.                  *)
(***************************************************************************)
LEMMA OeWriterStartOK ==
    ASSUME NEW s \in OeSession, NEW rest, NEW n, OeOK(s, rest, n),
           NEW i \in DOMAIN s.wr, s.wr[i] = 0
    PROVE  LET t == OeWriterLoop(s, i)
           IN  t \in OeSession /\ OeOK(t, rest, n) /\ t.link = s.link /\ t.reg = s.reg
<1> DEFINE t == OeWriterLoop(s, i)
<1>1. /\ i = 1 /\ s.link # "none" /\ s.writing /\ s.wr = <<0>>
      /\ s.wq # <<>> /\ Head(s.wq) \in Nat
  BY OeWriterOne
<1>2. [s.wr EXCEPT ![i] = Head(s.wq)] = <<Head(s.wq)>> /\ <<Head(s.wq)>> \in Seq(Nat)
  BY <1>1, WriterList
<1>3. t = [s EXCEPT !.wr = <<Head(s.wq)>>]
  BY <1>1, <1>2 DEF OeWriterLoop, OeSession
<1>4. /\ t.link = s.link /\ t.reg = s.reg /\ t.wq = s.wq /\ t.got = s.got
      /\ t.writing = s.writing /\ t.wr = <<Head(s.wq)>>
  BY <1>3 DEF OeSession
<1>5. t \in OeSession
  BY <1>2, <1>3 DEF OeSession
<1> HIDE DEF t
<1>6. Writer(t, Head(t.wq)) /\ t.wq # <<>>
  BY <1>1, <1>4 DEF Writer
<1>7. OeOK(t, rest, n)
  BY <1>1, <1>4, <1>6 DEF OeOK
<1>8. QED
  BY <1>4, <1>5, <1>7 DEF t

(***************************************************************************)
(* A write completes: what the trader receives leaves the queue.           *)
(***************************************************************************)
LEMMA OeWriterDoneOK ==
    ASSUME NEW s \in OeSession, NEW rest \in Seq(Result), NEW n, OeOK(s, rest, n),
           NEW i \in DOMAIN s.wr, s.wr[i] # 0
    PROVE  LET t == OeWriterLoop(OeReceive(s, i), i)
           IN  t \in OeSession /\ OeOK(t, rest, n) /\ t.link = s.link /\ t.reg = s.reg
<1> DEFINE got == IF s.link = "up" THEN Append(s.got, s.wr[i]) ELSE s.got
           u == OeReceive(s, i)
           t == OeWriterLoop(u, i)
<1>1. /\ i = 1 /\ s.link # "none" /\ s.writing /\ s.wr = <<Head(s.wq)>>
      /\ s.wq # <<>> /\ Head(s.wq) \in Nat /\ s.wq \in Seq(Result) /\ s.got \in Seq(Result)
  BY OeWriterOne DEF OeSession
<1>2. Head(s.wq) \in Result /\ Tail(s.wq) \in Seq(Result) /\ Append(s.got, Head(s.wq)) \in Seq(Result)
  <2>1. Head(s.wq) \in Result /\ Tail(s.wq) \in Seq(Result)
    BY <1>1, HeadTailProperties
  <2>2. QED
    BY <1>1, <2>1, AppendProperties
<1>3. got \in Seq(Result) /\ (s.link = "up" => got = Append(s.got, Head(s.wq)))
  BY <1>1, <1>2
<1>4. s.link # "down" => Cat(Cat(got, Tail(s.wq)), rest) = Cat(Cat(s.got, s.wq), rest)
  <2>1. Cat(Append(s.got, Head(s.wq)), Tail(s.wq)) = Cat(s.got, s.wq)
    BY <1>1, HandOver
  <2>2. s.link # "down" => s.link = "up"
    BY <1>1 DEF OeSession, Link
  <2>3. QED
    BY <1>3, <2>1, <2>2
<1>5. /\ u \in OeSession /\ u.link = s.link /\ u.reg = s.reg /\ u.wq = Tail(s.wq) /\ u.got = got
      /\ u.writing = s.writing /\ u.wr = s.wr
  BY <1>2, <1>3 DEF OeReceive, OeSession
<1> HIDE DEF u, got
<1>6. CASE u.wq # <<>>
  <2>1. Head(u.wq) \in Nat
    <3>1. u.wq \in Seq(Result)
      BY <1>2, <1>5
    <3>2. Head(u.wq) \in Result
      BY <1>6, <3>1, HeadTailProperties
    <3>3. QED
      BY <3>2 DEF Result
  <2>2. [u.wr EXCEPT ![i] = Head(u.wq)] = <<Head(u.wq)>> /\ <<Head(u.wq)>> \in Seq(Nat)
    <3>1. [<<Head(s.wq)>> EXCEPT ![1] = Head(u.wq)] = <<Head(u.wq)>>
      BY <1>1, <2>1, WriterList
    <3>2. <<Head(u.wq)>> \in Seq(Nat)
      BY <2>1, WriterList
    <3>3. QED
      BY <1>1, <1>5, <3>1, <3>2
  <2>3. t = [u EXCEPT !.wr = <<Head(u.wq)>>]
    BY <1>5, <1>6, <2>2 DEF OeWriterLoop, OeSession
  <2>4. /\ t.link = s.link /\ t.reg = s.reg /\ t.wq = u.wq /\ t.got = got
        /\ t.writing = s.writing /\ t.wr = <<Head(u.wq)>>
    BY <1>5, <2>3 DEF OeSession
  <2>5. t \in OeSession
    BY <1>5, <2>2, <2>3 DEF OeSession
  <2> HIDE DEF t
  <2>6. Writer(t, Head(t.wq)) /\ t.wq # <<>>
    BY <1>1, <1>6, <2>4 DEF Writer
  <2>7. OeOK(t, rest, n)
    BY <1>1, <1>4, <1>5, <2>4, <2>6 DEF OeOK
  <2>8. QED
    BY <2>4, <2>5, <2>7 DEF t, u
<1>7. CASE u.wq = <<>>
  <2>1. RemoveAt(u.wr, i) = <<>>
    BY <1>1, <1>5, WriterList
  <2>2. t = [u EXCEPT !.wr = <<>>, !.writing = FALSE]
    BY <1>5, <1>7, <2>1 DEF OeWriterLoop, OeSession
  <2>3. /\ t.link = s.link /\ t.reg = s.reg /\ t.wq = u.wq /\ t.got = got
        /\ ~t.writing /\ t.wr = <<>>
    BY <1>5, <2>2 DEF OeSession
  <2>4. t \in OeSession
    BY <1>5, <2>2, WriterList DEF OeSession
  <2> HIDE DEF t
  <2>5. NoWriter(t)
    BY <2>3 DEF NoWriter
  <2>6. OeOK(t, rest, n)
    BY <1>1, <1>4, <1>5, <1>7, <2>3, <2>5 DEF OeOK
  <2>7. QED
    BY <2>3, <2>4, <2>6 DEF t, u
<1>8. QED
  BY <1>6, <1>7

(***************************************************************************)
(* The writer gives up; the session or the connection changes otherwise.   *)
(***************************************************************************)
LEMMA OeWriterFailsOK ==
    ASSUME NEW s \in OeSession, NEW rest, NEW n, OeOK(s, rest, n), NEW i \in DOMAIN s.wr,
           s.link = "down"
    PROVE  LET t == [s EXCEPT !.wr = RemoveAt(@, i), !.writing = FALSE]
           IN  t \in OeSession /\ OeOK(t, rest, n) /\ t.link = s.link /\ t.reg = s.reg
<1> DEFINE t == [s EXCEPT !.wr = RemoveAt(@, i), !.writing = FALSE]
<1>1. RemoveAt(s.wr, i) = <<>>
  <2>1. i = 1 /\ s.wr[1] \in Nat /\ s.wr = <<s.wr[1]>>
    BY OeWriterOne
  <2>2. RemoveAt(<<s.wr[1]>>, 1) = <<>>
    BY <2>1, WriterList
  <2>3. QED
    BY <2>1, <2>2
<1>2. t = [s EXCEPT !.wr = <<>>, !.writing = FALSE]
  BY <1>1 DEF OeSession
<1>3. t.link = "down" /\ t.reg = s.reg /\ NoWriter(t)
  BY <1>2 DEF OeSession, NoWriter
<1>4. t \in OeSession
  BY <1>2, WriterList DEF OeSession
<1> HIDE DEF t
<1>5. OeOK(t, rest, n)
  BY <1>3 DEF OeOK
<1>6. QED
  BY <1>3, <1>4, <1>5 DEF t

\* A session whose queue and writer do not change stays correct.
LEMMA OeSameOK ==
    ASSUME NEW s \in OeSession, NEW rest, NEW n, OeOK(s, rest, n), NEW t \in OeSession,
           t.wq = s.wq, t.writing = s.writing, t.wr = s.wr, t.got = s.got,
           t.link = "none" => s.link = "none" /\ ~t.reg,
           \/ t.link = "down"
           \/ s.link # "down" /\ (s.reg => t.reg)
    PROVE  OeOK(t, rest, n)
<1>1. (NoWriter(t) = NoWriter(s)) /\ \A w : Writer(t, w) = Writer(s, w)
  BY DEF NoWriter, Writer
<1>2. QED
  BY <1>1 DEF OeOK

-----------------------------------------------------------------------------
(* Posted handlers. *)

(***************************************************************************)
(* The results for a trader in the posted handlers, when one is posted and *)
(* when the first one runs.                                                *)
(***************************************************************************)
LEMMA RestSeq ==
    ASSUME NEW p \in Seq(Handler), NEW c \in Traders
    PROVE  ResultsOf(p, c) \in Seq(Seq(Result)) /\ Rest(p, c) \in Seq(Result)
<1>1. \A i \in 1..Len(p) : p[i].results[c] \in Seq(Result)
  <2>1. \A i \in 1..Len(p) : p[i] \in Handler
    OBVIOUS
  <2>2. \A h \in Handler : h.results[c] \in Seq(Result)
    BY DEF Handler
  <2>3. QED
    BY <2>1, <2>2
<1>2. ResultsOf(p, c) \in Seq(Seq(Result))
  BY <1>1 DEF ResultsOf
<1>3. QED
  BY <1>2, FlattenTyped DEF Rest

\* A posted handler adds its results to those on their way.
LEMMA RestAppend ==
    ASSUME NEW p \in Seq(Handler), NEW h \in Handler, NEW c \in Traders
    PROVE  Rest(Append(p, h), c) = Cat(Rest(p, c), h.results[c])
<1>1. h.results[c] \in Seq(Result)
  BY DEF Handler
<1>2. ResultsOf(Append(p, h), c) = Append(ResultsOf(p, c), h.results[c])
  BY <1>1 DEF ResultsOf
<1>3. ResultsOf(p, c) \in Seq(Seq(Result))
  BY RestSeq
<1>4. QED
  BY <1>1, <1>2, <1>3, FlattenAppend DEF Rest

\* The next posted handler delivers the first of them.
LEMMA RestTail ==
    ASSUME NEW p \in Seq(Handler), p # <<>>, NEW c \in Traders
    PROVE  Rest(p, c) = Cat(Head(p).results[c], Rest(Tail(p), c))
<1>1. /\ ResultsOf(p, c) # <<>> /\ Head(ResultsOf(p, c)) = Head(p).results[c]
      /\ Tail(ResultsOf(p, c)) = ResultsOf(Tail(p), c)
  BY DEF ResultsOf
<1>2. ResultsOf(p, c) \in Seq(Seq(Result))
  BY RestSeq
<1>3. QED
  BY <1>1, <1>2, FlattenHeadTail DEF Rest

(***************************************************************************)
(* The same for the snapshots in them.                                     *)
(***************************************************************************)
LEMMA SnapshotSeq ==
    ASSUME NEW p \in Seq(Handler)
    PROVE  \A i \in 1..Len(p) : p[i].snapshot \in Seq(Nat)
<1>1. \A i \in 1..Len(p) : p[i] \in Handler
  OBVIOUS
<1>2. \A h \in Handler : h.snapshot \in Seq(Nat)
  BY DEF Handler
<1>3. QED
  BY <1>1, <1>2

\* A posted snapshot is newer than those before it.
LEMMA SnapshotsAppend ==
    ASSUME NEW p \in Seq(Handler), NEW l \in Nat, NEW b \in Nat, l <= b,
           SnapshotsAscend(p, l, b), NEW h \in Handler, NEW d \in Nat,
           \/ h.snapshot = <<>> /\ d = b
           \/ h.snapshot = <<b + 1>> /\ d = b + 1
    PROVE  SnapshotsAscend(Append(p, h), l, d)
<1> DEFINE q == Append(p, h)
<1>1. /\ Len(p) \in Nat /\ Len(q) = Len(p) + 1 /\ q[Len(p) + 1] = h
      /\ \A i \in 1..Len(p) : q[i] = p[i] /\ p[i].snapshot \in Seq(Nat)
      /\ \A i \in 1..Len(q) : i \in 1..Len(p) \/ i = Len(p) + 1
  <2>1. \A i \in 1..Len(p) : p[i].snapshot \in Seq(Nat)
    BY SnapshotSeq
  <2>2. /\ Len(p) \in Nat /\ Len(q) = Len(p) + 1 /\ q[Len(p) + 1] = h
        /\ \A i \in 1..Len(p) : q[i] = p[i]
    OBVIOUS
  <2> HIDE DEF q
  <2>3. \A i \in 1..Len(q) : i \in 1..Len(p) \/ i = Len(p) + 1
    BY <2>2
  <2>4. QED
    BY <2>1, <2>2, <2>3
<1> HIDE DEF q
<1>2. /\ h.snapshot # <<>> => Len(h.snapshot) = 1 /\ h.snapshot[1] = b + 1 /\ d = b + 1
      /\ h.snapshot = <<>> => d = b
  <2>1. CASE h.snapshot = <<>> /\ d = b
    BY <2>1
  <2>2. CASE h.snapshot = <<b + 1>> /\ d = b + 1
    BY <2>2
  <2>3. QED
    BY <2>1, <2>2
<1>3. ASSUME NEW i \in 1..Len(q), q[i].snapshot # <<>>
      PROVE  /\ Len(q[i].snapshot) = 1 /\ l < q[i].snapshot[1] /\ q[i].snapshot[1] <= d
             /\ \A j \in 1..Len(q) : q[j].snapshot # <<>> /\ i < j =>
                    q[i].snapshot[1] < q[j].snapshot[1]
  <2>1. CASE i \in 1..Len(p)
    <3>1. /\ q[i] = p[i] /\ p[i].snapshot # <<>>
          /\ Len(p[i].snapshot) = 1 /\ l < p[i].snapshot[1] /\ p[i].snapshot[1] <= b
          /\ \A j \in 1..Len(p) : p[j].snapshot # <<>> /\ i < j =>
                p[i].snapshot[1] < p[j].snapshot[1]
      BY <1>1, <1>3, <2>1 DEF SnapshotsAscend
    <3>2. p[i].snapshot[1] \in Nat /\ d \in Nat /\ b <= d
      <4>1. p[i].snapshot \in Seq(Nat)
        BY <1>1, <2>1
      <4>2. p[i].snapshot[1] \in Nat
        BY <3>1, <4>1
      <4>3. QED
        BY <1>2, <4>2
    <3>3. ASSUME NEW j \in 1..Len(q), q[j].snapshot # <<>>, i < j
          PROVE  p[i].snapshot[1] < q[j].snapshot[1]
      <4>1. CASE j \in 1..Len(p)
        BY <1>1, <3>1, <3>3, <4>1
      <4>2. CASE j = Len(p) + 1
        <5>1. q[j].snapshot[1] = b + 1
          BY <1>1, <1>2, <3>3, <4>2
        <5>2. QED
          BY <3>1, <3>2, <5>1
      <4>3. QED
        BY <1>1, <4>1, <4>2
    <3>4. QED
      BY <3>1, <3>2, <3>3
  <2>2. CASE i = Len(p) + 1
    <3>1. q[i] = h /\ Len(h.snapshot) = 1 /\ h.snapshot[1] = b + 1 /\ d = b + 1
      BY <1>1, <1>2, <1>3, <2>2
    <3>2. \A j \in 1..Len(q) : ~(i < j)
      BY <1>1, <2>2
    <3>3. QED
      BY <3>1, <3>2
  <2>3. QED
    BY <1>1, <2>1, <2>2
<1>4. l = d \/ \E i \in 1..Len(q) : q[i].snapshot # <<>> /\ q[i].snapshot[1] = d
  <2>1. CASE h.snapshot # <<>>
    <3>1. Len(p) + 1 \in 1..Len(q)
      BY <1>1
    <3>2. QED
      BY <1>1, <1>2, <2>1, <3>1
  <2>2. CASE h.snapshot = <<>> /\ l # b
    <3>1. PICK i \in 1..Len(p) : p[i].snapshot # <<>> /\ p[i].snapshot[1] = b
      BY <2>2 DEF SnapshotsAscend
    <3>2. i \in 1..Len(q) /\ q[i] = p[i]
      BY <1>1
    <3>3. QED
      BY <1>2, <2>2, <3>1, <3>2
  <2>3. QED
    BY <1>2, <2>1, <2>2
<1>5. QED
  BY <1>3, <1>4 DEF SnapshotsAscend, q

\* The next posted snapshot is the oldest.
LEMMA SnapshotsTail ==
    ASSUME NEW p \in Seq(Handler), p # <<>>, NEW l \in Nat, NEW b \in Nat,
           SnapshotsAscend(p, l, b), NEW k,
           k = IF Head(p).snapshot = <<>> THEN l ELSE Head(p).snapshot[1]
    PROVE  SnapshotsAscend(Tail(p), k, b) /\ k \in Nat /\ l <= k /\ (l <= b => k <= b)
<1> DEFINE q == Tail(p)
<1>1. /\ Len(p) \in Nat /\ Len(p) > 0 /\ Len(q) = Len(p) - 1 /\ Head(p) = p[1]
      /\ \A i \in 1..Len(q) : i + 1 \in 1..Len(p) /\ 1 < i + 1 /\ q[i] = p[i + 1]
      /\ \A i \in 1..Len(p) : i # 1 => i - 1 \in 1..Len(q) /\ q[i - 1] = p[i]
      /\ 1 \in 1..Len(p)
  <2>1. /\ Len(p) \in Nat /\ Len(p) > 0 /\ Len(q) = Len(p) - 1 /\ Head(p) = p[1]
        /\ \A i \in 1..(Len(p) - 1) : q[i] = p[i + 1]
    OBVIOUS
  <2> HIDE DEF q
  <2>2. \A i \in 1..Len(p) : i # 1 => i - 1 \in 1..(Len(p) - 1) /\ q[i - 1] = p[i]
    <3> TAKE i \in 1..Len(p)
    <3> HAVE i # 1
    <3>1. i - 1 \in 1..(Len(p) - 1) /\ (i - 1) + 1 = i
      BY <2>1
    <3>2. QED
      BY <2>1, <3>1
  <2>3. QED
    BY <2>1, <2>2
<1> HIDE DEF q
<1>2. p[1].snapshot # <<>> =>
        /\ k = p[1].snapshot[1] /\ l < k /\ k <= b /\ k \in Nat
        /\ \A j \in 1..Len(p) : p[j].snapshot # <<>> /\ 1 < j => k < p[j].snapshot[1]
  <2> HAVE p[1].snapshot # <<>>
  <2>1. p[1].snapshot \in Seq(Nat) /\ Len(p[1].snapshot) = 1
    <3>1. p[1].snapshot \in Seq(Nat)
      BY <1>1, SnapshotSeq
    <3>2. QED
      BY <1>1, <3>1 DEF SnapshotsAscend
  <2>2. p[1].snapshot[1] \in Nat
    BY <2>1
  <2>3. QED
    BY <1>1, <2>2 DEF SnapshotsAscend
<1>3. k \in Nat /\ l <= k /\ (l <= b => k <= b)
  BY <1>1, <1>2
<1>4. ASSUME NEW i \in 1..Len(q), q[i].snapshot # <<>>
      PROVE  /\ Len(q[i].snapshot) = 1 /\ k < q[i].snapshot[1] /\ q[i].snapshot[1] <= b
             /\ \A j \in 1..Len(q) : q[j].snapshot # <<>> /\ i < j =>
                    q[i].snapshot[1] < q[j].snapshot[1]
  <2>1. i + 1 \in 1..Len(p) /\ 1 < i + 1 /\ q[i] = p[i + 1]
    BY <1>1
  <2>2. /\ Len(q[i].snapshot) = 1 /\ l < q[i].snapshot[1] /\ q[i].snapshot[1] <= b
        /\ \A j \in 1..Len(p) : p[j].snapshot # <<>> /\ i + 1 < j =>
              q[i].snapshot[1] < p[j].snapshot[1]
    BY <1>4, <2>1 DEF SnapshotsAscend
  <2>3. k < q[i].snapshot[1]
    BY <1>1, <1>2, <1>4, <2>1, <2>2
  <2>4. ASSUME NEW j \in 1..Len(q), q[j].snapshot # <<>>, i < j
        PROVE  q[i].snapshot[1] < q[j].snapshot[1]
    <3>1. j + 1 \in 1..Len(p) /\ q[j] = p[j + 1] /\ i + 1 < j + 1
      BY <1>1, <2>4
    <3>2. QED
      BY <2>2, <2>4, <3>1
  <2>5. QED
    BY <2>2, <2>3, <2>4
<1>5. k = b \/ \E i \in 1..Len(q) : q[i].snapshot # <<>> /\ q[i].snapshot[1] = b
  <2>1. CASE l = b
    BY <1>1, <1>2, <2>1
  <2>2. CASE l # b
    <3>1. PICK i \in 1..Len(p) : p[i].snapshot # <<>> /\ p[i].snapshot[1] = b
      BY <2>2 DEF SnapshotsAscend
    <3>2. CASE i = 1
      BY <1>2, <3>1, <3>2
    <3>3. CASE i # 1
      BY <1>1, <3>1, <3>3
    <3>4. QED
      BY <3>2, <3>3
  <2>3. QED
    BY <2>1, <2>2
<1>6. QED
  BY <1>3, <1>4, <1>5 DEF SnapshotsAscend, q

-----------------------------------------------------------------------------
(* The invariant holds. *)

(***************************************************************************)
(* The constructor establishes it.                                         *)
(***************************************************************************)
LEMMA InitIInv == Init => IInv
<1> SUFFICES ASSUME Init
             PROVE  IInv
  OBVIOUS
<1>1. <<>> \in Seq(Nat) /\ <<>> \in Seq(Result) /\ <<>> \in Seq(Handler) /\ <<>> \in Seq(Traders)
  OBVIOUS
<1>2. NoMd \in MdSession /\ NoOe \in OeSession
  BY <1>1 DEF NoMd, NoOe, MdSession, OeSession, Link
<1>3. Typed
  BY <1>1, <1>2 DEF Init, Typed, CachedBook
<1>4. MdOK(NoMd, 1)
  BY DEF NoMd, MdOK, NoWriter
<1>5. OeOK(NoOe, <<>>, 0)
  <2>1. Cat(Cat(<<>>, <<>>), <<>>) = <<>>
    BY DEF Cat
  <2>2. Numbers(0) = <<>>
    BY DEF Numbers
  <2>3. QED
    BY <2>1, <2>2 DEF NoOe, OeOK, NoWriter
<1>6. \A c \in Traders : Rest(<<>>, c) = <<>>
  <2>1. \A c : ResultsOf(<<>>, c) = <<>>
    BY DEF ResultsOf
  <2>2. QED
    BY <2>1, FlattenEmpty DEF Rest
<1>7. SentByRegistered /\ ListenerOK
  BY DEF Init, SentByRegistered, ListenerOK
<1>8. SnapshotsAscend(posted, latest_book, book)
  BY DEF Init, SnapshotsAscend, CachedBook
<1>9. \A m \in Subscribers : MdOK(md[m], latest_book)
  BY <1>4 DEF Init, CachedBook
<1>10. \A c \in Traders : OeOK(oe[c], Rest(posted, c), produced[c])
  BY <1>5, <1>6 DEF Init
<1>11. QED
  BY <1>3, <1>7, <1>8, <1>9, <1>10 DEF IInv

(***************************************************************************)
(* A step of one session keeps it if the session stays in order.           *)
(***************************************************************************)
LEMMA MdStep ==
    ASSUME IInv, NEW m \in Subscribers, NEW t \in MdSession, MdOK(t, latest_book),
           md' = [md EXCEPT ![m] = t],
           UNCHANGED <<running, oe, listener, inbound, posted, latest_book, book, produced, orders>>
    PROVE  IInv'
<1>1. Typed'
  BY DEF IInv, Typed
<1>2. \A k \in Subscribers : MdOK(md[k], latest_book)'
  BY DEF IInv, Typed
<1>3. \A c \in Traders : OeOK(oe[c], Rest(posted, c), produced[c])'
  BY DEF IInv
<1>4. SentByRegistered' /\ ListenerOK'
  BY DEF IInv, SentByRegistered, ListenerOK
<1>5. SnapshotsAscend(posted, latest_book, book)'
  BY DEF IInv
<1>6. QED
  BY <1>1, <1>2, <1>3, <1>4, <1>5 DEF IInv

\* A step of one order session keeps the invariant.
LEMMA OeStep ==
    ASSUME IInv, NEW c \in Traders, NEW t \in OeSession, OeOK(t, Rest(posted, c), produced[c]),
           t.link # "down" => oe[c].link # "down" /\ (oe[c].reg => t.reg),
           t.link = "none" => oe[c].link = "none" /\ c \notin listener',
           oe' = [oe EXCEPT ![c] = t], listener' \subseteq listener \cup {c}, orders' \in Nat,
           \/ inbound' = inbound
           \/ inbound' = Append(inbound, c) /\ t.reg,
           UNCHANGED <<running, md, posted, latest_book, book, produced>>
    PROVE  IInv'
<1>1. inbound' \in Seq(Traders)
  <2>1. inbound \in Seq(Traders)
    BY DEF IInv, Typed
  <2>2. Append(inbound, c) \in Seq(Traders)
    BY <2>1, AppendProperties
  <2>3. QED
    BY <2>1, <2>2
<1>2. Typed'
  BY <1>1 DEF IInv, Typed
<1>3. \A m \in Subscribers : MdOK(md[m], latest_book)'
  BY DEF IInv
<1>4. \A k \in Traders : oe'[k] = IF k = c THEN t ELSE oe[k]
  BY DEF IInv, Typed
<1>5. \A k \in Traders : OeOK(oe[k], Rest(posted, k), produced[k])'
  BY <1>4 DEF IInv
<1>6. \A k \in Traders : (oe[k].link # "down" => oe[k].reg) =>
                         (oe'[k].link # "down" => oe'[k].reg)
  BY <1>4
<1>7. SentByRegistered'
  <2>1. \A i \in 1..Len(inbound) : inbound[i] \in Traders
    BY DEF IInv, Typed
  <2>2. \A i \in 1..Len(inbound) : oe'[inbound[i]].link # "down" => oe'[inbound[i]].reg
    BY <1>6, <2>1 DEF IInv, SentByRegistered
  <2>3. CASE inbound' = inbound
    BY <2>2, <2>3 DEF SentByRegistered
  <2>4. CASE inbound' = Append(inbound, c) /\ t.reg
    <3>1. /\ Len(inbound) \in Nat /\ Len(inbound') = Len(inbound) + 1
          /\ \A i \in 1..Len(inbound) : inbound'[i] = inbound[i]
          /\ inbound'[Len(inbound) + 1] = c
      BY <2>4 DEF IInv, Typed
    <3>2. \A i \in 1..Len(inbound') : i \in 1..Len(inbound) \/ i = Len(inbound) + 1
      BY <3>1
    <3>3. oe'[c].reg
      BY <1>4, <2>4
    <3>4. \A i \in 1..Len(inbound') : oe'[inbound'[i]].link # "down" => oe'[inbound'[i]].reg
      BY <2>2, <3>1, <3>2, <3>3
    <3>5. QED
      BY <3>4 DEF SentByRegistered
  <2>5. QED
    BY <2>3, <2>4
<1>8. SnapshotsAscend(posted, latest_book, book)'
  BY DEF IInv
<1>9. ListenerOK'
  BY <1>4 DEF IInv, Typed, ListenerOK
<1>10. QED
  BY <1>2, <1>3, <1>5, <1>7, <1>8, <1>9 DEF IInv

(***************************************************************************)
(* The steps of a subscriber's session keep it, and no subscriber gets an  *)
(* older book than it had.                                                 *)
(***************************************************************************)
SeenGrows == \A m \in Subscribers : md'[m].seen >= md[m].seen

\* Only one subscriber reads, and never an older book.
LEMMA MdSeen ==
    ASSUME Typed, NEW m \in Subscribers, NEW t \in MdSession, t.seen >= md[m].seen,
           md' = [md EXCEPT ![m] = t]
    PROVE  SeenGrows
<1>1. \A k \in Subscribers : md[k] \in MdSession
  BY DEF Typed
<1>2. \A s \in MdSession : s.seen \in Nat
  BY DEF MdSession
<1>3. \A k \in Subscribers : md'[k] = IF k = m THEN t ELSE md[k]
  BY DEF Typed
<1>4. QED
  BY <1>1, <1>2, <1>3 DEF SeenGrows

\* A step of one subscriber's session keeps the invariant.
LEMMA MdNextIInv ==
    ASSUME IInv, NEW m \in Subscribers, MdNext(m)
    PROVE  IInv' /\ SeenGrows
<1> DEFINE s == md[m]
<1>1. /\ s \in MdSession /\ MdOK(s, latest_book) /\ latest_book \in Nat /\ 1 <= latest_book
      /\ Typed /\ s.seen \in Nat
  <2>1. s \in MdSession /\ MdOK(s, latest_book) /\ latest_book \in Nat /\ 1 <= latest_book /\ Typed
    BY DEF IInv, Typed
  <2>2. QED
    BY <2>1 DEF MdSession
<1> DEFINE Goal(x) == /\ MdOK(x, latest_book) /\ x.seen >= s.seen
                      /\ md' = [md EXCEPT ![m] = x]
<1>2. UNCHANGED <<running, oe, listener, inbound, posted, latest_book, book, produced, orders>>
  BY DEF MdNext, MdAccept, MdWriterStart, MdWriterDone, MdWriterFails, MdWatch, SubscriberLeaves
<1>3. ASSUME MdAccept(m) PROVE \E x \in MdSession : Goal(x)
  <2> DEFINE f == [NoMd EXCEPT !.link = "up", !.reg = TRUE]
  <2>1. f \in MdSession /\ NoWriter(f) /\ f.seen = 0 /\ f.pending = 0
        /\ ~f.has_pending /\ f.link = "up"
    BY WriterList DEF NoMd, MdSession, Link, NoWriter
  <2>2. md' = [md EXCEPT ![m] = Offer(f, latest_book)]
    BY <1>3 DEF MdAccept
  <2> HIDE DEF f
  <2>3. MdOK(f, 0)
    BY <2>1 DEF MdOK
  <2>4. /\ Offer(f, latest_book) \in MdSession /\ MdOK(Offer(f, latest_book), latest_book)
        /\ Offer(f, latest_book).seen = f.seen
    BY <1>1, <2>1, <2>3, OfferOK
  <2>5. s.seen = 0
    BY <1>1, <1>3 DEF MdAccept, MdOK
  <2>6. Offer(f, latest_book).seen >= s.seen
    BY <2>1, <2>4, <2>5
  <2>7. QED
    BY <2>2, <2>4, <2>6, Zenon
<1>4. ASSUME MdWriterStart(m) PROVE \E x \in MdSession : Goal(x)
  <2>1. PICK i \in DOMAIN s.wr : s.wr[i] = 0 /\ md' = [md EXCEPT ![m] = MdWriterLoop(s, i)]
    BY <1>1, <1>4 DEF MdWriterStart, Typed
  <2>2. /\ MdWriterLoop(s, i) \in MdSession /\ MdOK(MdWriterLoop(s, i), latest_book)
        /\ MdWriterLoop(s, i).seen = s.seen
    BY <1>1, <2>1, MdWriterStartOK
  <2>3. MdWriterLoop(s, i).seen >= s.seen
    BY <1>1, <2>2
  <2>4. QED
    BY <2>1, <2>2, <2>3, Zenon
<1>5. ASSUME MdWriterDone(m) PROVE \E x \in MdSession : Goal(x)
  <2> DEFINE t(i) == MdWriterLoop(MdReceive(s, i), i)
  <2>1. PICK i \in DOMAIN s.wr : s.wr[i] # 0 /\ md' = [md EXCEPT ![m] = t(i)]
    BY <1>1, <1>5 DEF MdWriterDone, Typed, MdSession
  <2>2. t(i) \in MdSession /\ MdOK(t(i), latest_book) /\ t(i).seen >= s.seen
    BY <1>1, <2>1, MdWriterDoneOK
  <2> HIDE DEF t
  <2>3. QED
    BY <2>1, <2>2, Zenon
<1>6. ASSUME MdWriterFails(m) PROVE \E x \in MdSession : Goal(x)
  <2> DEFINE t(i) == [s EXCEPT !.wr = RemoveAt(@, i), !.writing = FALSE]
  <2>1. PICK i \in DOMAIN s.wr : md' = [md EXCEPT ![m] = t(i)]
    BY <1>1, <1>6 DEF MdWriterFails, Typed, MdSession
  <2>2. t(i) \in MdSession /\ MdOK(t(i), latest_book) /\ t(i).seen = s.seen
    BY <1>1, <1>6, MdWriterFailsOK DEF MdWriterFails
  <2> HIDE DEF t
  <2>3. t(i).seen >= s.seen
    BY <1>1, <2>2
  <2>4. QED
    BY <2>1, <2>2, <2>3, Zenon
<1>7. ASSUME MdWatch(m) PROVE \E x \in MdSession : Goal(x)
  <2> DEFINE t == [s EXCEPT !.reg = FALSE]
  <2>1. md' = [md EXCEPT ![m] = t]
    BY <1>1, <1>7 DEF MdWatch, Typed
  <2>2. /\ t \in MdSession /\ t.link = "down" /\ t.pending = s.pending
        /\ t.has_pending = s.has_pending /\ t.writing = s.writing /\ t.wr = s.wr /\ t.seen = s.seen
    BY <1>1, <1>7 DEF MdWatch, MdSession
  <2> HIDE DEF t
  <2>3. MdOK(t, latest_book) /\ t.seen >= s.seen
    BY <1>1, <2>2, MdDownOK
  <2>4. QED
    BY <2>1, <2>2, <2>3, Zenon
<1>8. ASSUME SubscriberLeaves(m) PROVE \E x \in MdSession : Goal(x)
  <2> DEFINE t == [s EXCEPT !.link = "down"]
  <2>1. md' = [md EXCEPT ![m] = t]
    BY <1>1, <1>8 DEF SubscriberLeaves, Typed
  <2>2. /\ t \in MdSession /\ t.link = "down" /\ t.pending = s.pending
        /\ t.has_pending = s.has_pending /\ t.writing = s.writing /\ t.wr = s.wr /\ t.seen = s.seen
    BY <1>1 DEF MdSession, Link
  <2> HIDE DEF t
  <2>3. MdOK(t, latest_book) /\ t.seen >= s.seen
    BY <1>1, <2>2, MdDownOK
  <2>4. QED
    BY <2>1, <2>2, <2>3, Zenon
<1>9. PICK x \in MdSession : Goal(x)
  BY <1>3, <1>4, <1>5, <1>6, <1>7, <1>8 DEF MdNext
<1>10. QED
  BY <1>1, <1>2, <1>9, MdStep, MdSeen

(***************************************************************************)
(* The steps of a trader's session keep it.                                *)
(***************************************************************************)
LEMMA OeNextIInv ==
    ASSUME IInv, NEW c \in Traders, OeNext(c)
    PROVE  IInv' /\ UNCHANGED md
<1> DEFINE s == oe[c]
           rest == Rest(posted, c)
           n == produced[c]
           Goal(x) == /\ OeOK(x, rest, n)
                      /\ x.link # "down" => s.link # "down" /\ (s.reg => x.reg)
                      /\ x.link = "none" => s.link = "none" /\ c \notin listener'
                      /\ \/ inbound' = inbound
                         \/ inbound' = Append(inbound, c) /\ x.reg
                      /\ oe' = [oe EXCEPT ![c] = x]
<1>1. /\ s \in OeSession /\ OeOK(s, rest, n) /\ rest \in Seq(Result) /\ n \in Nat
      /\ oe \in [Traders -> OeSession] /\ orders \in Nat /\ listener \subseteq Traders
      /\ s.up \in Nat /\ (c \in listener => s.link # "none")
  <2>1. /\ s \in OeSession /\ OeOK(s, rest, n) /\ n \in Nat
        /\ oe \in [Traders -> OeSession] /\ orders \in Nat /\ listener \subseteq Traders
        /\ (c \in listener => s.link # "none") /\ posted \in Seq(Handler)
    BY DEF IInv, Typed, ListenerOK
  <2>2. s.up \in Nat
    BY <2>1 DEF OeSession
  <2>3. rest \in Seq(Result)
    BY <2>1, RestSeq
  <2>4. QED
    BY <2>1, <2>2, <2>3
<1> HIDE DEF rest, n
<1>2. UNCHANGED <<running, md, posted, latest_book, book, produced>>
  BY DEF OeNext, OeAccept, OeRegister, OeHandshakeFails, OeReader, OeReaderEnds,
         OeWriterStart, OeWriterDone, OeWriterFails, SendOrder, TraderLeaves
<1>3. orders' \in Nat /\ listener' \subseteq listener \cup {c}
  BY <1>1 DEF OeNext, OeAccept, OeRegister, OeHandshakeFails, OeReader, OeReaderEnds,
         OeWriterStart, OeWriterDone, OeWriterFails, SendOrder, TraderLeaves
<1>4. ASSUME OeAccept(c) PROVE \E x \in OeSession : Goal(x)
  <2> DEFINE t == [s EXCEPT !.link = "up"]
  <2>1. /\ t \in OeSession /\ t.link = "up" /\ t.reg = s.reg /\ t.wq = s.wq /\ t.got = s.got
        /\ t.writing = s.writing /\ t.wr = s.wr
    BY <1>1 DEF OeSession, Link
  <2>2. oe' = [oe EXCEPT ![c] = t] /\ s.link = "none" /\ inbound' = inbound
    BY <1>1, <1>4 DEF OeAccept
  <2> HIDE DEF t
  <2>3. OeOK(t, rest, n)
    BY <1>1, <2>1, <2>2, OeSameOK
  <2>4. QED
    BY <2>1, <2>2, <2>3
<1>5. ASSUME OeRegister(c) PROVE \E x \in OeSession : Goal(x)
  <2> DEFINE t == [s EXCEPT !.reg = TRUE]
  <2>1. /\ t \in OeSession /\ t.link = s.link /\ t.reg /\ t.wq = s.wq /\ t.got = s.got
        /\ t.writing = s.writing /\ t.wr = s.wr
    BY <1>1 DEF OeSession
  <2>2. oe' = [oe EXCEPT ![c] = t] /\ s.link # "none" /\ inbound' = inbound
    BY <1>1, <1>5 DEF OeRegister
  <2> HIDE DEF t
  <2>3. OeOK(t, rest, n)
    BY <1>1, <2>1, <2>2, OeSameOK
  <2>4. QED
    BY <2>1, <2>2, <2>3
<1>6. ASSUME OeHandshakeFails(c) PROVE \E x \in OeSession : Goal(x)
  <2>1. oe' = [oe EXCEPT ![c] = s] /\ listener' = {} /\ inbound' = inbound
    BY <1>1, <1>6 DEF OeHandshakeFails
  <2>2. QED
    BY <1>1, <2>1
<1>7. ASSUME OeReader(c) PROVE \E x \in OeSession : Goal(x)
  <2> DEFINE t == [s EXCEPT !.up = @ - 1]
  <2>1. s.up > 0 /\ s.reg /\ oe' = [oe EXCEPT ![c] = t] /\ inbound' = Append(inbound, c)
        /\ listener' = listener
    BY <1>1, <1>7 DEF OeReader
  <2>2. s.up - 1 \in Nat
    BY <1>1, <2>1
  <2>3. /\ t \in OeSession /\ t.link = s.link /\ t.reg = s.reg /\ t.wq = s.wq /\ t.got = s.got
        /\ t.writing = s.writing /\ t.wr = s.wr
    BY <1>1, <2>2 DEF OeSession
  <2> HIDE DEF t
  <2>4. s.link # "none"
    BY <1>1, <2>1 DEF OeOK
  <2>5. OeOK(t, rest, n)
    BY <1>1, <2>1, <2>3, <2>4, OeSameOK
  <2>6. QED
    BY <2>1, <2>3, <2>4, <2>5
<1>8. ASSUME OeReaderEnds(c) PROVE \E x \in OeSession : Goal(x)
  <2> DEFINE t == [s EXCEPT !.reg = FALSE, !.up = 0]
  <2>1. s.link = "down" /\ oe' = [oe EXCEPT ![c] = t] /\ inbound' = inbound
    BY <1>1, <1>8 DEF OeReaderEnds
  <2>2. /\ t \in OeSession /\ t.link = s.link /\ t.wq = s.wq /\ t.got = s.got
        /\ t.writing = s.writing /\ t.wr = s.wr
    BY <1>1 DEF OeSession
  <2> HIDE DEF t
  <2>3. OeOK(t, rest, n)
    BY <1>1, <2>1, <2>2, OeSameOK
  <2>4. QED
    BY <2>1, <2>2, <2>3
<1>9. ASSUME OeWriterStart(c) PROVE \E x \in OeSession : Goal(x)
  <2> DEFINE t(i) == OeWriterLoop(s, i)
  <2>1. PICK i \in DOMAIN s.wr : s.wr[i] = 0 /\ oe' = [oe EXCEPT ![c] = t(i)]
    BY <1>1, <1>9 DEF OeWriterStart
  <2>2. inbound' = inbound /\ listener' = listener
    BY <1>9 DEF OeWriterStart
  <2>3. t(i) \in OeSession /\ OeOK(t(i), rest, n) /\ t(i).link = s.link /\ t(i).reg = s.reg
    BY <1>1, <2>1, OeWriterStartOK
  <2> HIDE DEF t
  <2>4. QED
    BY <1>1, <2>1, <2>2, <2>3
<1>10. ASSUME OeWriterDone(c) PROVE \E x \in OeSession : Goal(x)
  <2> DEFINE t(i) == OeWriterLoop(OeReceive(s, i), i)
  <2>1. PICK i \in DOMAIN s.wr : s.wr[i] # 0 /\ oe' = [oe EXCEPT ![c] = t(i)]
    BY <1>1, <1>10 DEF OeWriterDone
  <2>2. inbound' = inbound /\ listener' = listener
    BY <1>10 DEF OeWriterDone
  <2>3. t(i) \in OeSession /\ OeOK(t(i), rest, n) /\ t(i).link = s.link /\ t(i).reg = s.reg
    BY <1>1, <2>1, OeWriterDoneOK
  <2> HIDE DEF t
  <2>4. QED
    BY <1>1, <2>1, <2>2, <2>3
<1>11. ASSUME OeWriterFails(c) PROVE \E x \in OeSession : Goal(x)
  <2> DEFINE t(i) == [s EXCEPT !.wr = RemoveAt(@, i), !.writing = FALSE]
  <2>1. PICK i \in DOMAIN s.wr : oe' = [oe EXCEPT ![c] = t(i)]
    BY <1>1, <1>11 DEF OeWriterFails, OeSession
  <2>2. s.link = "down" /\ inbound' = inbound /\ listener' = listener
    BY <1>11 DEF OeWriterFails
  <2>3. t(i) \in OeSession /\ OeOK(t(i), rest, n) /\ t(i).link = s.link /\ t(i).reg = s.reg
    BY <1>1, <2>2, OeWriterFailsOK
  <2> HIDE DEF t
  <2>4. QED
    BY <1>1, <2>1, <2>2, <2>3
<1>12. ASSUME SendOrder(c) PROVE \E x \in OeSession : Goal(x)
  <2> DEFINE t == [s EXCEPT !.up = @ + 1]
  <2>1. s.link = "up" /\ oe' = [oe EXCEPT ![c] = t] /\ inbound' = inbound
    BY <1>1, <1>12 DEF SendOrder
  <2>2. s.up + 1 \in Nat
    BY <1>1
  <2>3. /\ t \in OeSession /\ t.link = s.link /\ t.reg = s.reg /\ t.wq = s.wq /\ t.got = s.got
        /\ t.writing = s.writing /\ t.wr = s.wr
    BY <1>1, <2>2 DEF OeSession
  <2> HIDE DEF t
  <2>4. OeOK(t, rest, n)
    BY <1>1, <2>1, <2>3, OeSameOK
  <2>5. QED
    BY <2>1, <2>3, <2>4
<1>13. ASSUME TraderLeaves(c) PROVE \E x \in OeSession : Goal(x)
  <2> DEFINE t == [s EXCEPT !.link = "down"]
  <2>1. oe' = [oe EXCEPT ![c] = t] /\ inbound' = inbound
    BY <1>1, <1>13 DEF TraderLeaves
  <2>2. /\ t \in OeSession /\ t.link = "down" /\ t.wq = s.wq /\ t.got = s.got
        /\ t.writing = s.writing /\ t.wr = s.wr
    BY <1>1 DEF OeSession, Link
  <2> HIDE DEF t
  <2>3. OeOK(t, rest, n)
    BY <1>1, <2>2, OeSameOK
  <2>4. QED
    BY <2>1, <2>2, <2>3
<1>14. PICK x \in OeSession : Goal(x)
  BY <1>4, <1>5, <1>6, <1>7, <1>8, <1>9, <1>10, <1>11, <1>12, <1>13 DEF OeNext
<1>15. IInv'
  BY <1>2, <1>3, <1>14, OeStep DEF rest, n
<1>16. QED
  BY <1>2, <1>15

(***************************************************************************)
(* The engine thread keeps it: what it posts continues what was posted.    *)
(***************************************************************************)
LEMMA ExecuteIInv ==
    ASSUME IInv, Execute
    PROVE  IInv' /\ UNCHANGED md
<1>1. PICK count \in [Traders -> 0..MaxResults], dirty \in BOOLEAN : EngineLoop(count, dirty)
  BY DEF Execute
<1> DEFINE h == [results  |-> [t \in Traders |-> [i \in 1..count[t] |-> produced[t] + i]],
                 snapshot |-> IF dirty THEN <<book + 1>> ELSE <<>>]
<1>2. /\ inbound # <<>> /\ count[Head(inbound)] > 0
      /\ \A t \in Traders \ {Head(inbound)} : count[t] > 0 => dirty /\ produced[t] > 0
      /\ produced' = [t \in Traders |-> produced[t] + count[t]]
      /\ posted' = Append(posted, h)
      /\ book' = IF dirty THEN book + 1 ELSE book
      /\ inbound' = Tail(inbound)
      /\ UNCHANGED <<running, md, oe, listener, latest_book, orders>>
  BY <1>1, Zenon DEF EngineLoop
<1>3. Typed
  BY DEF IInv
<1>4. /\ \A t \in Traders : count[t] \in Nat /\ produced[t] \in Nat /\ oe[t] \in OeSession
      /\ book \in Nat /\ latest_book \in Nat /\ 1 <= latest_book /\ latest_book <= book
      /\ posted \in Seq(Handler) /\ inbound \in Seq(Traders)
  BY <1>3, ServerAssumption DEF Typed
<1>5. h \in Handler /\ (dirty => h.snapshot = <<book + 1>>) /\ (~dirty => h.snapshot = <<>>)
      /\ \A t \in Traders : h.results[t] = [i \in 1..count[t] |-> produced[t] + i]
  <2>1. \A t \in Traders : [i \in 1..count[t] |-> produced[t] + i] \in Seq(Nat)
    BY <1>4
  <2>2. [t \in Traders |-> [i \in 1..count[t] |-> produced[t] + i]] \in [Traders -> Seq(Result)]
    BY <2>1 DEF Result
  <2>3. <<book + 1>> \in Seq(Nat) /\ <<>> \in Seq(Nat)
    BY <1>4
  <2>4. QED
    BY <2>2, <2>3 DEF Handler
<1> HIDE DEF h
<1>6. posted' \in Seq(Handler)
  BY <1>2, <1>4, <1>5, AppendProperties
<1>7. Head(inbound) \in Traders /\ Tail(inbound) \in Seq(Traders) /\ Head(inbound) = inbound[1]
      /\ Len(inbound) \in Nat /\ Len(inbound) > 0 /\ Len(Tail(inbound)) = Len(inbound) - 1
      /\ \A i \in 1..Len(Tail(inbound)) : i + 1 \in 1..Len(inbound) /\ Tail(inbound)[i] = inbound[i + 1]
  BY <1>2, <1>4
<1>8. Typed'
  <2>1. produced' \in [Traders -> Nat]
    BY <1>2, <1>4
  <2>2. book' \in Nat /\ latest_book' <= book'
    BY <1>2, <1>4
  <2>3. QED
    BY <1>2, <1>3, <1>6, <1>7, <2>1, <2>2 DEF Typed
<1>9. \A m \in Subscribers : MdOK(md[m], latest_book)'
  BY <1>2 DEF IInv
<1>10. \A t \in Traders : OeOK(oe[t], Rest(posted, t), produced[t])'
  <2> SUFFICES ASSUME NEW t \in Traders
               PROVE  OeOK(oe[t], Rest(posted', t), produced[t] + count[t])
    BY <1>2, <1>4
  <2>1. OeOK(oe[t], Rest(posted, t), produced[t]) /\ Rest(posted, t) \in Seq(Result)
    BY <1>4, RestSeq DEF IInv
  <2>2. Rest(posted', t) = Cat(Rest(posted, t), [i \in 1..count[t] |-> produced[t] + i])
    <3>1. Rest(Append(posted, h), t) = Cat(Rest(posted, t), h.results[t])
      BY <1>4, <1>5, RestAppend
    <3>2. h.results[t] = [i \in 1..count[t] |-> produced[t] + i]
      BY <1>5, Zenon
    <3>3. posted' = Append(posted, h)
      BY <1>2
    <3>4. QED
      BY <3>1, <3>2, <3>3, Zenon
  <2>3. count[t] > 0 /\ oe[t].link # "down" => oe[t].reg
    <3>1. CASE t = Head(inbound)
      <4>1. 1 \in 1..Len(inbound) /\ inbound[1] = t
        BY <1>7, <3>1
      <4>2. QED
        BY <4>1 DEF IInv, SentByRegistered
    <3>2. CASE t # Head(inbound)
      <4>1. count[t] > 0 => produced[t] # 0
        BY <1>2, <1>4, <3>2
      <4>2. QED
        BY <2>1, <4>1 DEF OeOK
    <3>3. QED
      BY <3>1, <3>2
  <2>4. OeOK(oe[t], Cat(Rest(posted, t), [i \in 1..count[t] |-> produced[t] + i]),
             produced[t] + count[t])
    BY <1>4, <2>1, <2>3, ProduceOK
  <2>5. QED
    BY <2>2, <2>4, Zenon
<1>11. SentByRegistered' /\ ListenerOK'
  <2>1. ListenerOK'
    BY <1>2 DEF IInv, ListenerOK
  <2>2. SentByRegistered'
    BY <1>2, <1>7 DEF IInv, SentByRegistered
  <2>3. QED
    BY <2>1, <2>2
<1>12. SnapshotsAscend(posted, latest_book, book)'
  <2>1. SnapshotsAscend(posted, latest_book, book)
    BY DEF IInv
  <2>2. \/ h.snapshot = <<>> /\ book' = book
        \/ h.snapshot = <<book + 1>> /\ book' = book + 1
    BY <1>2, <1>5
  <2>3. book' \in Nat
    BY <1>8 DEF Typed
  <2>4. SnapshotsAscend(Append(posted, h), latest_book, book')
    BY <1>4, <1>5, <2>1, <2>2, <2>3, SnapshotsAppend
  <2>5. QED
    BY <1>2, <2>4
<1>13. QED
  BY <1>2, <1>8, <1>9, <1>10, <1>11, <1>12 DEF IInv

(***************************************************************************)
(* A session that is not registered is not concerned by a later book.      *)
(***************************************************************************)
LEMMA MdLaterOK ==
    ASSUME NEW s \in MdSession, NEW a \in Nat, NEW b \in Nat, a <= b, MdOK(s, a), ~s.reg
    PROVE  MdOK(s, b)
<1>1. s.seen \in Nat /\ s.pending \in Nat
  BY DEF MdSession
<1>2. /\ s.link = "none" => s.seen = 0
      /\ s.seen <= b /\ s.pending <= b
      /\ s.has_pending => s.pending \in 1..b /\ s.seen <= s.pending
  BY <1>1 DEF MdOK
<1>3. \A w \in 1..a : w \in 1..b
  OBVIOUS
<1>4. QED
  BY <1>2, <1>3 DEF MdOK

(***************************************************************************)
(* The posted handler keeps it, and sends no older book.                   *)
(***************************************************************************)
LEMMA PublishIInv ==
    ASSUME IInv, Publish
    PROVE  IInv' /\ SeenGrows
<1> DEFINE h == Head(posted)
           k == IF h.snapshot = <<>> THEN latest_book ELSE h.snapshot[1]
<1>1. Typed
  BY DEF IInv
<1>2. /\ posted \in Seq(Handler) /\ posted # <<>> /\ h \in Handler /\ Tail(posted) \in Seq(Handler)
      /\ book \in Nat /\ latest_book \in Nat /\ 1 <= latest_book /\ latest_book <= book
      /\ \A m \in Subscribers : md[m] \in MdSession
      /\ \A c \in Traders : oe[c] \in OeSession /\ produced[c] \in Nat
  <2>1. posted \in Seq(Handler) /\ posted # <<>>
    BY <1>1 DEF Publish, Typed
  <2>2. h \in Handler /\ Tail(posted) \in Seq(Handler)
    BY <2>1, HeadTailProperties
  <2>3. QED
    BY <1>1, <2>1, <2>2 DEF Typed
<1>3. /\ posted' = Tail(posted) /\ SendOrderResults(h.results)
      /\ UNCHANGED <<running, listener, inbound, book, produced, orders>>
      /\ h.snapshot = <<>> => UNCHANGED <<latest_book, md>>
      /\ h.snapshot # <<>> => latest_book' = h.snapshot[1] /\ BroadcastOrderBook(h.snapshot[1])
  BY DEF Publish
<1>4. /\ SnapshotsAscend(Tail(posted), k, book) /\ k \in Nat /\ latest_book <= k /\ k <= book
      /\ latest_book' = k
  <2>1. SnapshotsAscend(posted, latest_book, book)
    BY DEF IInv
  <2>2. latest_book' = k
    BY <1>3
  <2>3. QED
    BY <1>2, <2>1, <2>2, SnapshotsTail
<1>5. ASSUME NEW m \in Subscribers
      PROVE  md'[m] \in MdSession /\ MdOK(md'[m], k) /\ md'[m].seen = md[m].seen
  <2>1. MdOK(md[m], latest_book) /\ md[m] \in MdSession
    BY <1>2 DEF IInv
  <2>2. CASE h.snapshot = <<>>
    BY <1>3, <2>1, <2>2
  <2>3. CASE h.snapshot # <<>>
    <3>1. k = h.snapshot[1] /\ 1 <= k
      BY <1>2, <1>4, <2>3
    <3>2. md'[m] = IF md[m].reg THEN Offer(md[m], k) ELSE md[m]
      BY <1>3, <2>3, <3>1 DEF BroadcastOrderBook
    <3> HIDE DEF k
    <3>3. CASE md[m].reg
      BY <1>2, <1>4, <2>1, <3>1, <3>2, <3>3, OfferOK
    <3>4. CASE ~md[m].reg
      BY <1>2, <1>4, <2>1, <3>2, <3>4, MdLaterOK
    <3>5. QED
      BY <3>3, <3>4
  <2>4. QED
    BY <2>2, <2>3
<1>6. ASSUME NEW c \in Traders
      PROVE  /\ oe'[c] \in OeSession /\ OeOK(oe'[c], Rest(Tail(posted), c), produced[c])
             /\ oe'[c].link = oe[c].link /\ oe'[c].reg = oe[c].reg
  <2> DEFINE r == h.results[c]
             rest == Rest(Tail(posted), c)
  <2>1. oe[c] \in OeSession /\ produced[c] \in Nat /\ r \in Seq(Result) /\ rest \in Seq(Result)
    <3>1. r \in Seq(Result)
      BY <1>2 DEF Handler
    <3>2. QED
      BY <1>2, <3>1, RestSeq
  <2>2. OeOK(oe[c], Cat(r, rest), produced[c])
    <3>1. OeOK(oe[c], Rest(posted, c), produced[c])
      BY DEF IInv
    <3>2. Rest(posted, c) = Cat(r, rest)
      BY <1>2, RestTail
    <3>3. QED
      BY <3>1, <3>2, Zenon
  <2>3. oe'[c] = IF oe[c].reg /\ r # <<>> THEN Enqueue(oe[c], r) ELSE oe[c]
    BY <1>3 DEF SendOrderResults
  <2> HIDE DEF r, rest
  <2>4. CASE oe[c].reg /\ r # <<>>
    <3>1. Enqueue(oe[c], r) \in OeSession /\ OeOK(Enqueue(oe[c], r), rest, produced[c])
          /\ Enqueue(oe[c], r).link = oe[c].link /\ Enqueue(oe[c], r).reg = oe[c].reg
      BY <2>1, <2>2, <2>4, EnqueueOK
    <3>2. QED
      BY <2>3, <2>4, <3>1 DEF rest
  <2>5. CASE ~(oe[c].reg /\ r # <<>>)
    <3>1. OeOK(oe[c], rest, produced[c])
      BY <2>1, <2>2, <2>5, SkipOK
    <3>2. QED
      BY <2>1, <2>3, <2>5, <3>1 DEF rest
  <2>6. QED
    BY <2>4, <2>5
<1> HIDE DEF k, h
<1>7. Typed'
  <2>1. md' \in [Subscribers -> MdSession]
    <3>1. md' = [m \in Subscribers |-> md'[m]]
      BY <1>1, <1>3 DEF Typed, BroadcastOrderBook
    <3>2. QED
      BY <1>5, <3>1
  <2>2. oe' \in [Traders -> OeSession]
    <3>1. oe' = [c \in Traders |-> oe'[c]]
      BY <1>3 DEF SendOrderResults
    <3>2. QED
      BY <1>6, <3>1
  <2>3. latest_book' \in Nat /\ 1 <= latest_book' /\ latest_book' <= book'
    BY <1>2, <1>3, <1>4
  <2>4. QED
    BY <1>1, <1>2, <1>3, <2>1, <2>2, <2>3 DEF Typed
<1>8. \A m \in Subscribers : MdOK(md[m], latest_book)'
  BY <1>4, <1>5
<1>9. \A c \in Traders : OeOK(oe[c], Rest(posted, c), produced[c])'
  BY <1>3, <1>6
<1>10. SentByRegistered' /\ ListenerOK'
  <2>1. \A i \in 1..Len(inbound) : inbound[i] \in Traders
    BY <1>1 DEF Typed
  <2>2. \A i \in 1..Len(inbound) : oe'[inbound[i]].link # "down" => oe'[inbound[i]].reg
    BY <1>6, <2>1 DEF IInv, SentByRegistered
  <2>3. \A c \in listener : oe'[c].link # "none"
    BY <1>1, <1>6 DEF IInv, ListenerOK, Typed
  <2>4. QED
    BY <1>3, <2>2, <2>3 DEF SentByRegistered, ListenerOK
<1>11. SnapshotsAscend(posted, latest_book, book)'
  BY <1>3, <1>4
<1>12. SeenGrows
  <2>1. \A m \in Subscribers : md[m].seen \in Nat
    BY <1>2 DEF MdSession
  <2>2. QED
    BY <1>5, <2>1 DEF SeenGrows
<1>13. QED
  BY <1>7, <1>8, <1>9, <1>10, <1>11, <1>12 DEF IInv

(***************************************************************************)
(* Server::Stop keeps it: it closes the sessions and touches nothing else. *)
(***************************************************************************)
LEMMA StopIInv ==
    ASSUME IInv, Stop
    PROVE  IInv' /\ SeenGrows
<1>1. /\ Typed
      /\ \A m \in Subscribers : md[m] \in MdSession /\ MdOK(md[m], latest_book)
      /\ \A c \in Traders : oe[c] \in OeSession /\ OeOK(oe[c], Rest(posted, c), produced[c])
      /\ latest_book \in Nat
  BY DEF IInv, Typed
<1>2. UNCHANGED <<listener, inbound, posted, latest_book, book, produced, orders>>
      /\ running' \in BOOLEAN
  BY DEF Stop
<1>3. ASSUME NEW m \in Subscribers
      PROVE  md'[m] \in MdSession /\ MdOK(md'[m], latest_book) /\ md'[m].seen = md[m].seen
  <2> DEFINE s == md[m]
             t == [s EXCEPT !.reg = FALSE, !.link = "down"]
  <2>1. md'[m] = IF s.reg THEN t ELSE s
    BY DEF Stop
  <2>2. /\ t \in MdSession /\ t.link = "down" /\ t.pending = s.pending
        /\ t.has_pending = s.has_pending /\ t.writing = s.writing /\ t.wr = s.wr /\ t.seen = s.seen
    BY <1>1 DEF MdSession, Link
  <2>3. s \in MdSession /\ MdOK(s, latest_book)
    BY <1>1
  <2> HIDE DEF t, s
  <2>4. MdOK(t, latest_book)
    BY <1>1, <2>2, <2>3, MdDownOK
  <2>5. QED
    BY <2>1, <2>2, <2>3, <2>4 DEF s
<1>4. ASSUME NEW c \in Traders
      PROVE  /\ oe'[c] \in OeSession /\ OeOK(oe'[c], Rest(posted, c), produced[c])
             /\ oe'[c].link # "down" => oe'[c] = oe[c]
             /\ oe'[c].link = "none" => oe[c].link = "none"
  <2> DEFINE s == oe[c]
             t == [s EXCEPT !.reg = FALSE, !.link = "down"]
  <2>1. oe'[c] = IF s.reg THEN t ELSE s
    BY DEF Stop
  <2>2. /\ t \in OeSession /\ t.link = "down" /\ t.wq = s.wq /\ t.got = s.got
        /\ t.writing = s.writing /\ t.wr = s.wr
    BY <1>1 DEF OeSession, Link
  <2>3. s \in OeSession /\ OeOK(s, Rest(posted, c), produced[c])
    BY <1>1
  <2> HIDE DEF t, s
  <2>4. OeOK(t, Rest(posted, c), produced[c])
    BY <2>2, <2>3, OeSameOK
  <2>5. QED
    BY <2>1, <2>2, <2>3, <2>4 DEF s
<1>5. Typed'
  <2>1. md' \in [Subscribers -> MdSession]
    <3>1. md' = [m \in Subscribers |-> md'[m]]
      BY DEF Stop
    <3>2. QED
      BY <1>3, <3>1
  <2>2. oe' \in [Traders -> OeSession]
    <3>1. oe' = [c \in Traders |-> oe'[c]]
      BY DEF Stop
    <3>2. QED
      BY <1>4, <3>1
  <2>3. QED
    BY <1>1, <1>2, <2>1, <2>2 DEF Typed
<1>6. SentByRegistered' /\ ListenerOK'
  <2>1. \A i \in 1..Len(inbound) : inbound[i] \in Traders
    BY <1>1 DEF Typed
  <2>2. \A i \in 1..Len(inbound) : oe'[inbound[i]].link # "down" => oe'[inbound[i]].reg
    BY <1>4, <2>1 DEF IInv, SentByRegistered
  <2>3. \A c \in listener : oe'[c].link # "none"
    BY <1>1, <1>4 DEF IInv, ListenerOK, Typed
  <2>4. QED
    BY <1>2, <2>2, <2>3 DEF SentByRegistered, ListenerOK
<1>7. SeenGrows
  <2>1. \A m \in Subscribers : md[m].seen \in Nat
    BY <1>1 DEF MdSession
  <2>2. QED
    BY <1>3, <2>1 DEF SeenGrows
<1>8. /\ \A m \in Subscribers : MdOK(md[m], latest_book)'
      /\ \A c \in Traders : OeOK(oe[c], Rest(posted, c), produced[c])'
      /\ SnapshotsAscend(posted, latest_book, book)'
  BY <1>2, <1>3, <1>4 DEF IInv
<1>9. QED
  BY <1>5, <1>6, <1>7, <1>8 DEF IInv

(***************************************************************************)
(* Every step keeps it, and no step takes a subscriber back.               *)
(***************************************************************************)
LEMMA SameSeen ==
    ASSUME IInv, UNCHANGED md
    PROVE  SeenGrows
<1>1. \A m \in Subscribers : md[m].seen \in Nat
  BY DEF IInv, Typed, MdSession
<1>2. QED
  BY <1>1 DEF SeenGrows

\* Every step keeps the invariant, and no subscriber goes back to an older book.
LEMMA NextIInv == IInv /\ [Next]_vars => IInv' /\ SeenGrows
<1> SUFFICES ASSUME IInv, [Next]_vars
             PROVE  IInv' /\ SeenGrows
  OBVIOUS
<1>1. ASSUME NEW m \in Subscribers, MdNext(m)
      PROVE  IInv' /\ SeenGrows
  BY <1>1, MdNextIInv
<1>2. ASSUME NEW c \in Traders, OeNext(c)
      PROVE  IInv' /\ SeenGrows
  BY <1>2, OeNextIInv, SameSeen
<1>3. CASE Execute
  BY <1>3, ExecuteIInv, SameSeen
<1>4. CASE Publish
  BY <1>4, PublishIInv
<1>5. CASE Stop
  BY <1>5, StopIInv
<1>6. CASE UNCHANGED vars
  <2>1. UNCHANGED <<running, md, oe, listener, inbound, posted, latest_book, book, produced, orders>>
    BY <1>6 DEF vars
  <2>2. IInv'
    BY <2>1 DEF IInv, Typed, SentByRegistered, ListenerOK
  <2>3. QED
    BY <2>1, <2>2, SameSeen
<1>7. QED
  BY <1>1, <1>2, <1>3, <1>4, <1>5, <1>6 DEF Next

(***************************************************************************)
(* The strengthened invariant: sessions, posted handlers and the engine's  *)
(* counters stay in step.                                                  *)
(***************************************************************************)
THEOREM Inductive == Spec => []IInv
<1>1. IInv /\ [Next]_vars => IInv'
  BY NextIInv
<1>2. QED
  BY InitIInv, <1>1, PTL DEF Spec

-----------------------------------------------------------------------------
(* The theorems. *)

(***************************************************************************)
(* The variables keep their types; no session holds a book that the engine *)
(* has not published.                                                      *)
(***************************************************************************)
THEOREM TypeCorrect == Spec => []TypeOK
<1>1. IInv => TypeOK
  <2> SUFFICES ASSUME IInv
               PROVE  TypeOK
    OBVIOUS
  <2>1. Typed
    BY DEF IInv
  <2>2. ASSUME NEW m \in Subscribers
        PROVE  md[m] \in [link : {"none", "up", "down"}, reg : BOOLEAN,
                          pending : 0..book, has_pending : BOOLEAN,
                          writing : BOOLEAN, wr : Seq(0..book), seen : 0..book]
    <3> DEFINE s == md[m]
    <3>1. s \in MdSession /\ MdOK(s, latest_book) /\ latest_book \in Nat /\ book \in Nat
          /\ latest_book <= book
      BY <2>1 DEF IInv, Typed
    <3> HIDE DEF s
    <3>2. s.seen \in 0..book
      BY <3>1 DEF MdOK, MdSession
    <3>3. s.wr \in Seq(0..book)
      <4>1. s.wr = <<>> \/ \E w \in 0..book : s.wr = <<w>>
        BY <3>1 DEF MdOK, NoWriter, Writer
      <4>2. \A w \in 0..book : <<w>> \in Seq(0..book)
        OBVIOUS
      <4>3. <<>> \in Seq(0..book)
        OBVIOUS
      <4>4. QED
        BY <4>1, <4>2, <4>3, Zenon
    <3>4. s.pending \in 0..book
      BY <3>1 DEF MdOK, MdSession
    <3>5. QED
      BY <3>1, <3>2, <3>3, <3>4 DEF s, MdSession, Link
  <2>3. QED
    BY <2>1, <2>2 DEF TypeOK, Typed, OeSession, Handler, Result, Link
<1>2. QED
  BY Inductive, <1>1, PTL

(***************************************************************************)
(* Two writers never run for one session, whatever the order of            *)
(* broadcasts, results and completions.                                    *)
(***************************************************************************)
THEOREM WritersExclusive == Spec => []OneWriter
<1>1. IInv => OneWriter
  <2> SUFFICES ASSUME IInv
               PROVE  OneWriter
    OBVIOUS
  <2>1. \A v : Len(<<v>>) = 1 /\ Len(<<>>) = 0
    OBVIOUS
  <2>2. ASSUME NEW m \in Subscribers
        PROVE  Len(md[m].wr) <= 1
    <3>1. MdOK(md[m], latest_book)
      BY DEF IInv
    <3>2. md[m].wr = <<>> \/ \E w : md[m].wr = <<w>>
      BY <3>1 DEF MdOK, NoWriter, Writer
    <3>3. CASE md[m].wr = <<>>
      BY <3>3
    <3>4. CASE \E w : md[m].wr = <<w>>
      <4>1. PICK w : md[m].wr = <<w>>
        BY <3>4
      <4>2. Len(md[m].wr) = 1
        BY <2>1, <4>1, Zenon
      <4>3. QED
        BY <4>2
    <3>5. QED
      BY <3>2, <3>3, <3>4, Zenon
  <2>3. ASSUME NEW c \in Traders
        PROVE  Len(oe[c].wr) <= 1
    <3>1. OeOK(oe[c], Rest(posted, c), produced[c])
      BY DEF IInv
    <3>2. oe[c].wr = <<>> \/ \E w : oe[c].wr = <<w>>
      BY <3>1 DEF OeOK, NoWriter, Writer
    <3>3. CASE oe[c].wr = <<>>
      BY <3>3
    <3>4. CASE \E w : oe[c].wr = <<w>>
      <4>1. PICK w : oe[c].wr = <<w>>
        BY <3>4
      <4>2. Len(oe[c].wr) = 1
        BY <2>1, <4>1, Zenon
      <4>3. QED
        BY <4>2
    <3>5. QED
      BY <3>2, <3>3, <3>4, Zenon
  <2>4. QED
    BY <2>2, <2>3 DEF OneWriter
<1>2. QED
  BY Inductive, <1>1, PTL

(***************************************************************************)
(* A connected trader gets every result exactly once and in order: what it *)
(* has, what is queued and what is posted are all its results so far.      *)
(***************************************************************************)
THEOREM ResultsDelivered == Spec => []ResultsInOrder
<1>1. IInv => ResultsInOrder
  <2> SUFFICES ASSUME IInv, NEW c \in Traders, Connected(oe[c])
               PROVE  oe[c].got \o oe[c].wq
                        \o FlattenSeq([i \in DOMAIN posted |-> posted[i].results[c]])
                      = [i \in 1..produced[c] |-> i]
    BY DEF ResultsInOrder
  <2>1. OeOK(oe[c], Rest(posted, c), produced[c]) /\ oe[c].link # "down"
    BY DEF IInv, Connected
  <2>2. Cat(Cat(oe[c].got, oe[c].wq), Rest(posted, c)) = Numbers(produced[c])
    BY <2>1 DEF OeOK
  <2>3. QED
    BY <2>2, Zenon DEF Cat, Rest, ResultsOf, Numbers
<1>2. QED
  BY Inductive, <1>1, PTL

(***************************************************************************)
(* No result and no book is left behind when a session has no writer.      *)
(***************************************************************************)
THEOREM NoneStranded == Spec => []NothingStranded
<1>1. IInv => NothingStranded
  <2> SUFFICES ASSUME IInv
               PROVE  NothingStranded
    OBVIOUS
  <2>1. ASSUME NEW c \in Traders, Connected(oe[c]), oe[c].wr = <<>>
        PROVE  oe[c].wq = <<>>
    <3>1. OeOK(oe[c], Rest(posted, c), produced[c]) /\ oe[c].link # "down"
      BY <2>1 DEF IInv, Connected
    <3>2. \A w : ~Writer(oe[c], w)
      BY <2>1 DEF Writer
    <3>3. QED
      BY <3>1, <3>2 DEF OeOK
  <2>2. ASSUME NEW m \in Subscribers, Connected(md[m]), md[m].wr = <<>>
        PROVE  md[m].seen = latest_book
    <3>1. MdOK(md[m], latest_book)
      BY DEF IInv
    <3>2. \A w : ~Writer(md[m], w)
      BY <2>2 DEF Writer
    <3>3. QED
      BY <2>2, <3>1, <3>2 DEF MdOK, Connected
  <2>3. posted = <<>> => latest_book = book
    BY DEF IInv, SnapshotsAscend
  <2>4. QED
    BY <2>1, <2>2, <2>3 DEF NothingStranded
<1>2. QED
  BY Inductive, <1>1, PTL

(***************************************************************************)
(* No subscriber is sent an older book than it has, although snapshots are *)
(* coalesced, cached for newcomers and published after the fact.           *)
(***************************************************************************)
THEOREM BooksOnlyAdvance == Spec => BooksAdvance
<1>1. IInv /\ [Next]_vars => [\A m \in Subscribers : md'[m].seen >= md[m].seen]_vars
  BY NextIInv DEF SeenGrows
<1>2. QED
  BY Inductive, <1>1, PTL DEF Spec, BooksAdvance

=============================================================================
