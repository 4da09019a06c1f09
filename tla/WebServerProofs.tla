-------------------------- MODULE WebServerProofs --------------------------
(***************************************************************************)
(* Proofs about the web server, for any number of clients, requests and    *)
(* headers: that requests never outlive the engine, that no header is      *)
(* written as content, that replies with a body are read on the desktop as *)
(* the handler asked for them, and that replies without one are complete   *)
(* on the ESP32.                                                           *)
(*                                                                         *)
(* The invariant of one response, Good, has two parts.  Written holds in   *)
(* whatever order a handler calls it; Ordered relates what is on the wire  *)
(* to what was asked for, and speaks of responses called in the order that *)
(* WebServer.h documents.  Each of the five operations keeps both, on each *)
(* platform.                                                               *)
(***************************************************************************)
EXTENDS WebServer, SequenceTheorems, FiniteSetTheorems, TLAPS

-----------------------------------------------------------------------------
(* A response: its fields, what the client's calls are remembered as, and   *)
(* the place where the head on the wire ends.                               *)

(* The kinds of tokens, the values they carry, and what types say of a      *)
(* response.                                                                *)
Kinds == {"status", "cors", "header", "type", "length", "end", "body", "last"}

Values == {"200", "404", "text", "json", "html", "empty", "any", "line", "head", "chunk",
           "stale"}

Tokens == [kind : Kinds, value : Values]

Platform == {"desktop", "esp32"}

States == {"Start", "HeadersOpen", "BodyStreaming", "Done"}

Asked == [status : Values, type : Values, headers : Nat, body : {"none", "empty", "text"},
          rank : 0 .. 6]

Response == [state : States, status : Values, type : Values, wire : Seq(Tokens),
             pending : [status : Values, dangling : BOOLEAN, type : Values, lines : Seq(Tokens)],
             asked : Asked]

(* A call in turn or out of turn changes nothing but the rank that is       *)
(* remembered, ...                                                          *)
LEMMA TurnTaken ==
  ASSUME NEW r \in Response, NEW rank \in 1 .. 5, NEW q, q = InTurn(r, rank)
  PROVE  /\ q = [state |-> r.state, status |-> r.status, type |-> r.type, wire |-> r.wire,
                 pending |-> r.pending, asked |-> q.asked]
         /\ q.asked = [status |-> r.asked.status, type |-> r.asked.type, headers |-> r.asked.headers,
                       body |-> r.asked.body, rank |-> q.asked.rank]
         /\ q.asked.rank = IF rank > r.asked.rank \/ (rank = 3 /\ r.asked.rank = 3)
                           THEN rank ELSE OutOfOrder
BY DEF InTurn, Response, Asked

(* ... and one that asks for something nothing but what is remembered of    *)
(* it.                                                                      *)
LEMMA AskedFor ==
  ASSUME NEW r \in Response,
         NEW field \in {"status", "type", "headers", "body"}, NEW value,
         NEW q, q = [r EXCEPT !.asked[field] = value]
  PROVE  /\ q = [state |-> r.state, status |-> r.status, type |-> r.type, wire |-> r.wire,
                 pending |-> r.pending, asked |-> q.asked]
         /\ q.asked =
             [status |-> IF field = "status" THEN value ELSE r.asked.status,
              type |-> IF field = "type" THEN value ELSE r.asked.type,
              headers |-> IF field = "headers" THEN value ELSE r.asked.headers,
              body |-> IF field = "body" THEN value ELSE r.asked.body,
              rank |-> r.asked.rank]
BY DEF Response, Asked

(* A head ends once, and nothing but body follows.                          *)
OneHead(w) ==
  \A i, j \in 1 .. Len(w) : w[i].kind = "end" /\ i < j => w[j].kind \in {"body", "last"}

(* HeadLength is the place of that end, and 0 if there is none.             *)
LEMMA HeadEnds ==
  ASSUME NEW r, r.wire \in Seq(Tokens), OneHead(r.wire)
  PROVE  /\ HeadLength(r) > 0 =>
              HeadLength(r) \in 1 .. Len(r.wire) /\ r.wire[HeadLength(r)].kind = "end"
         /\ \A n \in 1 .. Len(r.wire) : r.wire[n].kind = "end" => HeadLength(r) = n
<1> DEFINE I == {i \in 1 .. Len(r.wire) : r.wire[i].kind = "end"}
<1>1. HeadLength(r) = IF I # {} THEN Min(I) ELSE 0
  BY DEF HeadLength, SelectInSeq
<1>2. Len(r.wire) \in Nat
  BY LenProperties
<1>3. \A n \in I : I = {n}
  <2> TAKE n \in I
  <2>1. ASSUME NEW m \in I, m # n PROVE FALSE
    <3>1. m \in Nat /\ n \in Nat
      BY <1>2
    <3>2. CASE m < n
      BY <3>2 DEF OneHead
    <3>3. CASE n < m
      BY <3>3 DEF OneHead
    <3> QED BY <3>1, <3>2, <3>3, <2>1
  <2> QED BY <2>1
<1>4. \A n \in I : Min(I) = n
  <2> TAKE n \in I
  <2>1. I = {n} /\ n \in Nat
    BY <1>2, <1>3
  <2> HIDE DEF I
  <2> QED BY <2>1 DEF Min
<1> HIDE DEF I
<1>5. \A n \in I : HeadLength(r) = n
  BY <1>1, <1>4
<1>6. HeadLength(r) > 0 => I # {}
  BY <1>1
<1>7. HeadLength(r) > 0 => HeadLength(r) \in I
  BY <1>5, <1>6
<1> QED BY <1>5, <1>7 DEF I

-----------------------------------------------------------------------------
(* Writing: what stays true of the wire when tokens are written behind it,  *)
(* and what each operation writes.                                          *)

(* u is t written behind w.                                                 *)
Joins(u, w, t) ==
  /\ w \in Seq(Tokens) /\ t \in Seq(Tokens)
  /\ u \in Seq(Tokens) /\ Len(u) = Len(w) + Len(t)
  /\ Len(w) \in Nat /\ Len(t) \in Nat
  /\ \A i \in 1 .. Len(w) : u[i] = w[i]
  /\ \A i \in 1 .. Len(t) : u[Len(w) + i] = t[i]

LEMMA Joined ==
  ASSUME NEW w \in Seq(Tokens), NEW t \in Seq(Tokens)
  PROVE  Joins(w \o t, w, t)
<1> DEFINE u == w \o t
<1>1. /\ u \in Seq(Tokens) /\ Len(u) = Len(w) + Len(t)
      /\ \A i \in 1 .. Len(w) + Len(t) : u[i] = IF i <= Len(w) THEN w[i] ELSE t[i - Len(w)]
  BY ConcatProperties
<1>2. Len(w) \in Nat /\ Len(t) \in Nat
  BY LenProperties
<1>3. \A i \in 1 .. Len(w) : i \in 1 .. Len(w) + Len(t) /\ i <= Len(w)
  BY <1>2
<1>4. \A i \in 1 .. Len(t) : LET j == Len(w) + i IN
        j \in 1 .. Len(w) + Len(t) /\ ~(j <= Len(w)) /\ j - Len(w) = i
  BY <1>2
<1> HIDE DEF u
<1>5. Joins(u, w, t)
  BY <1>1, <1>2, <1>3, <1>4 DEF Joins
<1> QED BY <1>5 DEF u

(* No head ends in w; w is body and nothing else.                           *)
NoEnd(w) == \A i \in 1 .. Len(w) : w[i].kind # "end"

OnlyBody(w) == \A i \in 1 .. Len(w) : w[i].kind \in {"body", "last"}

(* Every position of u is one of w or one of t.                             *)
InEither(u, w, t, i) ==
  \/ i \in 1 .. Len(w) /\ u[i] = w[i]
  \/ \E k \in 1 .. Len(t) : i = Len(w) + k /\ u[i] = t[k]

LEMMA Places ==
  ASSUME NEW w \in Seq(Tokens), NEW t \in Seq(Tokens), NEW u, u = w \o t, NEW i \in 1 .. Len(u)
  PROVE  InEither(u, w, t, i)
<1>1. /\ Len(u) = Len(w) + Len(t)
      /\ Len(w) \in Nat /\ Len(t) \in Nat
      /\ \A k \in 1 .. Len(w) : u[k] = w[k]
      /\ \A k \in 1 .. Len(t) : u[Len(w) + k] = t[k]
  BY Joined DEF Joins
<1>2. CASE i <= Len(w)
  BY <1>1, <1>2 DEF InEither
<1>3. CASE ~(i <= Len(w))
  <2> DEFINE k == i - Len(w)
  <2>1. k \in 1 .. Len(t) /\ i = Len(w) + k
    BY <1>1, <1>3
  <2> HIDE DEF k
  <2> QED BY <1>1, <2>1 DEF InEither
<1> QED BY <1>2, <1>3

(* Body behind a head that may have ended, a head without an end, and       *)
(* tokens with an end behind an open head keep one head.                    *)
LEMMA BodyFollows ==
  ASSUME NEW w \in Seq(Tokens), NEW t \in Seq(Tokens), OneHead(w), OnlyBody(t)
  PROVE  OneHead(w \o t)
<1> DEFINE u == w \o t
<1> SUFFICES ASSUME NEW i \in 1 .. Len(u), NEW j \in 1 .. Len(u), u[i].kind = "end", i < j
             PROVE  u[j].kind \in {"body", "last"}
  BY DEF OneHead
<1>1. Len(w) \in Nat /\ Len(t) \in Nat /\ Len(u) \in Nat
  BY LenProperties, ConcatProperties
<1>2. u = w \o t
  OBVIOUS
<1> HIDE DEF u
<1>3. InEither(u, w, t, i)
  BY <1>2, Places
<1>4. InEither(u, w, t, j)
  BY <1>2, Places
<1>5. CASE \E k \in 1 .. Len(t) : j = Len(w) + k /\ u[j] = t[k]
  BY <1>5 DEF OnlyBody
<1>6. CASE j \in 1 .. Len(w) /\ u[j] = w[j]
  <2>1. i \in 1 .. Len(w) /\ u[i] = w[i]
    BY <1>1, <1>3, <1>6 DEF InEither
  <2> QED BY <1>6, <2>1 DEF OneHead
<1> QED BY <1>4, <1>5, <1>6 DEF InEither

LEMMA HeadFollows ==
  ASSUME NEW w \in Seq(Tokens), NEW t \in Seq(Tokens), NoEnd(w), OneHead(t)
  PROVE  OneHead(w \o t)
<1> DEFINE u == w \o t
<1> SUFFICES ASSUME NEW i \in 1 .. Len(u), NEW j \in 1 .. Len(u), u[i].kind = "end", i < j
             PROVE  u[j].kind \in {"body", "last"}
  BY DEF OneHead
<1>1. Len(w) \in Nat /\ Len(t) \in Nat /\ Len(u) \in Nat
  BY LenProperties, ConcatProperties
<1>2. u = w \o t
  OBVIOUS
<1> HIDE DEF u
<1>3. InEither(u, w, t, i)
  BY <1>2, Places
<1>4. InEither(u, w, t, j)
  BY <1>2, Places
<1>5. PICK k \in 1 .. Len(t) : i = Len(w) + k /\ u[i] = t[k]
  BY <1>3 DEF InEither, NoEnd
<1>6. PICK l \in 1 .. Len(t) : j = Len(w) + l /\ u[j] = t[l]
  BY <1>1, <1>4, <1>5 DEF InEither
<1>7. k < l
  BY <1>1, <1>5, <1>6
<1> QED BY <1>5, <1>6, <1>7 DEF OneHead

LEMMA NoEndFollows ==
  ASSUME NEW w \in Seq(Tokens), NEW t \in Seq(Tokens), NoEnd(w), NoEnd(t)
  PROVE  NoEnd(w \o t)
<1> DEFINE u == w \o t
<1> SUFFICES ASSUME NEW i \in 1 .. Len(u) PROVE u[i].kind # "end"
  BY DEF NoEnd
<1>1. u = w \o t
  OBVIOUS
<1> HIDE DEF u
<1>2. InEither(u, w, t, i)
  BY <1>1, Places
<1> QED BY <1>2 DEF NoEnd, InEither

(* Tokens, and sequences of a few of them.                                  *)
LEMMA TokenOK ==
  ASSUME NEW k \in Kinds, NEW v \in Values
  PROVE  Token(k, v) \in Tokens /\ Token(k, v).kind = k /\ Token(k, v).value = v
BY DEF Token, Tokens

LEMMA One ==
  ASSUME NEW x \in Tokens
  PROVE  <<x>> \in Seq(Tokens) /\ Len(<<x>>) = 1 /\ <<x>>[1] = x
OBVIOUS

LEMMA Two ==
  ASSUME NEW x \in Tokens, NEW y \in Tokens
  PROVE  <<x, y>> \in Seq(Tokens) /\ Len(<<x, y>>) = 2 /\ <<x, y>>[1] = x /\ <<x, y>>[2] = y
OBVIOUS

LEMMA Three ==
  ASSUME NEW x \in Tokens, NEW y \in Tokens, NEW z \in Tokens
  PROVE  /\ <<x, y, z>> \in Seq(Tokens) /\ Len(<<x, y, z>>) = 3
         /\ <<x, y, z>>[1] = x /\ <<x, y, z>>[2] = y /\ <<x, y, z>>[3] = z
OBVIOUS

LEMMA Four ==
  ASSUME NEW x \in Tokens, NEW y \in Tokens, NEW z \in Tokens, NEW v \in Tokens
  PROVE  /\ <<x, y, z, v>> \in Seq(Tokens) /\ Len(<<x, y, z, v>>) = 4
         /\ <<x, y, z, v>>[1] = x /\ <<x, y, z, v>>[2] = y
         /\ <<x, y, z, v>>[3] = z /\ <<x, y, z, v>>[4] = v
OBVIOUS

(* The sequences that the operations write, and what each makes of a wire.  *)
StatusLines(code) == <<Token("status", code), Token("cors", "any")>>
HeaderLine == <<Token("header", "line")>>
HeadTail(type, body) == <<Token("type", type), Token("length", body), Token("end", "head")>>
EmptyReply(code, type) ==
  <<Token("status", code), Token("type", type), Token("length", "empty"), Token("end", "head")>>

LEMMA StatusWritten ==
  ASSUME NEW code \in Values
  PROVE  LET t == StatusLines(code) IN
         /\ t \in Seq(Tokens) /\ Len(t) = 2 /\ NoEnd(t)
         /\ t[1] = Token("status", code) /\ t[2] = Token("cors", "any")
<1> DEFINE x == Token("status", code)
<1> DEFINE y == Token("cors", "any")
<1>1. x \in Tokens /\ y \in Tokens /\ x.kind = "status" /\ y.kind = "cors"
  BY TokenOK DEF Kinds, Values
<1>2. StatusLines(code) = <<x, y>>
  BY DEF StatusLines
<1> HIDE DEF x, y
<1>3. <<x, y>> \in Seq(Tokens) /\ Len(<<x, y>>) = 2 /\ <<x, y>>[1] = x /\ <<x, y>>[2] = y
  BY <1>1, Two
<1>4. NoEnd(<<x, y>>)
  BY <1>1, <1>3 DEF NoEnd
<1> QED BY <1>2, <1>3, <1>4 DEF x, y

LEMMA HeaderWritten ==
  LET t == HeaderLine IN
  t \in Seq(Tokens) /\ Len(t) = 1 /\ NoEnd(t) /\ t[1] = Token("header", "line")
<1> DEFINE x == Token("header", "line")
<1>1. x \in Tokens /\ x.kind = "header"
  BY TokenOK DEF Kinds, Values
<1>2. HeaderLine = <<x>>
  BY DEF HeaderLine
<1> HIDE DEF x
<1>3. <<x>> \in Seq(Tokens) /\ Len(<<x>>) = 1 /\ <<x>>[1] = x
  BY <1>1, One
<1>4. NoEnd(<<x>>)
  BY <1>1, <1>3 DEF NoEnd
<1> QED BY <1>2, <1>3, <1>4 DEF x

LEMMA HeadTailWritten ==
  ASSUME NEW type \in Values, NEW body \in Values
  PROVE  LET t == HeadTail(type, body) IN
         /\ t \in Seq(Tokens) /\ Len(t) = 3 /\ OneHead(t)
         /\ t[1] = Token("type", type) /\ t[2] = Token("length", body) /\ t[3] = Token("end", "head")
<1> DEFINE x == Token("type", type)
<1> DEFINE y == Token("length", body)
<1> DEFINE z == Token("end", "head")
<1>1. x \in Tokens /\ y \in Tokens /\ z \in Tokens /\ x.kind = "type" /\ y.kind = "length"
  BY TokenOK DEF Kinds, Values
<1>2. HeadTail(type, body) = <<x, y, z>>
  BY DEF HeadTail
<1> HIDE DEF x, y, z
<1>3. /\ <<x, y, z>> \in Seq(Tokens) /\ Len(<<x, y, z>>) = 3
      /\ <<x, y, z>>[1] = x /\ <<x, y, z>>[2] = y /\ <<x, y, z>>[3] = z
  BY <1>1, Three
<1>4. OneHead(<<x, y, z>>)
  BY <1>1, <1>3 DEF OneHead
<1> QED BY <1>2, <1>3, <1>4 DEF x, y, z

LEMMA EmptyWritten ==
  ASSUME NEW code \in Values, NEW type \in Values
  PROVE  EmptyReply(code, type) \in Seq(Tokens) /\ OneHead(EmptyReply(code, type))
<1> DEFINE x == Token("status", code)
<1> DEFINE y == Token("type", type)
<1> DEFINE z == Token("length", "empty")
<1> DEFINE v == Token("end", "head")
<1>1. /\ x \in Tokens /\ y \in Tokens /\ z \in Tokens /\ v \in Tokens
      /\ x.kind = "status" /\ y.kind = "type" /\ z.kind = "length"
  BY TokenOK DEF Kinds, Values
<1>2. EmptyReply(code, type) = <<x, y, z, v>>
  BY DEF EmptyReply
<1> HIDE DEF x, y, z, v
<1>3. /\ <<x, y, z, v>> \in Seq(Tokens) /\ Len(<<x, y, z, v>>) = 4
      /\ <<x, y, z, v>>[1] = x /\ <<x, y, z, v>>[2] = y
      /\ <<x, y, z, v>>[3] = z /\ <<x, y, z, v>>[4] = v
  BY <1>1, Four
<1>4. OneHead(<<x, y, z, v>>)
  BY <1>1, <1>3 DEF OneHead
<1> QED BY <1>2, <1>3, <1>4

LEMMA BytesWritten ==
  ASSUME NEW body \in {"empty", "text"}
  PROVE  LET t == Bytes(body) IN
         /\ t \in Seq(Tokens) /\ OnlyBody(t)
         /\ IF body = "empty" THEN t = <<>> ELSE Len(t) = 1 /\ t[1] = Token("body", "text")
<1>1. CASE body = "empty"
  BY <1>1 DEF Bytes, OnlyBody
<1>2. CASE body # "empty"
  <2> DEFINE x == Token("body", "text")
  <2>1. x \in Tokens /\ x.kind = "body"
    BY TokenOK DEF Kinds, Values
  <2>2. Bytes(body) = <<x>>
    BY <1>2 DEF Bytes
  <2> HIDE DEF x
  <2>3. <<x>> \in Seq(Tokens) /\ Len(<<x>>) = 1 /\ <<x>>[1] = x
    BY <2>1, One
  <2>4. OnlyBody(<<x>>)
    BY <2>1, <2>3 DEF OnlyBody
  <2> QED BY <1>2, <2>2, <2>3, <2>4 DEF x
<1> QED BY <1>1, <1>2

LEMMA LastWritten ==
  /\ LastChunk \in Seq(Tokens) /\ OnlyBody(LastChunk)
  /\ Len(LastChunk) = 1 /\ LastChunk[1] = Token("last", "chunk")
<1> DEFINE x == Token("last", "chunk")
<1>1. x \in Tokens /\ x.kind = "last"
  BY TokenOK DEF Kinds, Values
<1>2. LastChunk = <<x>>
  BY DEF LastChunk
<1> HIDE DEF x
<1>3. <<x>> \in Seq(Tokens) /\ Len(<<x>>) = 1 /\ <<x>>[1] = x
  BY <1>1, One
<1>4. OnlyBody(<<x>>)
  BY <1>1, <1>3 DEF OnlyBody
<1> QED BY <1>2, <1>3, <1>4 DEF x

LEMMA NothingWritten ==
  <<>> \in Seq(Tokens) /\ OnlyBody(<<>>) /\ OneHead(<<>>) /\ NoEnd(<<>>)
BY DEF OnlyBody, OneHead, NoEnd

-----------------------------------------------------------------------------
(* The invariant of one response.                                           *)

(* A response that nothing was asked of; one whose head the ESP32's         *)
(* library still keeps.                                                     *)
Fresh(r) ==
  /\ r.asked.rank = 0 /\ r.asked.headers = 0 /\ r.wire = <<>> /\ r.pending.lines = <<>>
  /\ r.asked.status = r.status /\ r.asked.type = r.type

Unsent(pl, r) ==
  /\ r.asked.body = "none"
  /\ IF pl = "esp32" THEN r.wire = <<>> ELSE NoEnd(r.wire)

(* The lines the library keeps.                                             *)
HeaderLines(w) == \A i \in 1 .. Len(w) : w[i].kind \in {"cors", "header"}

(* What holds of every response, in whatever order it is called: nothing    *)
(* but body follows the end of a head, only lines of a head are kept by     *)
(* the library, and as long as headers may be added the head has not        *)
(* ended; on the ESP32 nothing of it has been sent.                         *)
Written(pl, r) ==
  /\ r \in Response
  /\ OneHead(r.wire)
  /\ HeaderLines(r.pending.lines)
  /\ r.state = "Start" => Fresh(r)
  /\ r.state \in {"Start", "HeadersOpen"} => Unsent(pl, r)

(* The header lines among the first n tokens.                               *)
Headers(w, n) == {i \in 1 .. n : w[i].kind = "header"}

(* The first n tokens are a head, open so far, with the status and the      *)
(* headers asked for.                                                       *)
Opened(w, n, a) ==
  /\ n \in 2 .. Len(w)
  /\ w[1] = Token("status", a.status)
  /\ \A i \in 2 .. n : w[i].kind \in {"cors", "header"}
  /\ IsFiniteSet(Headers(w, n)) /\ Cardinality(Headers(w, n)) = a.headers
  /\ \A i \in Headers(w, n) : w[i].value = "line"

(* Behind such a head w has the type and the length asked for and the end,  *)
(* and then the body asked for.                                             *)
BodySent(w, n, a) ==
  /\ Opened(w, n, a)
  /\ n + 3 <= Len(w)
  /\ w[n + 1] = Token("type", a.type) /\ w[n + 2] = Token("length", a.body)
  /\ w[n + 3] = Token("end", "head")
  /\ IF a.body = "empty" THEN Len(w) = n + 3
     ELSE Len(w) = n + 4 /\ w[n + 4] = Token("body", a.body)

(* A reply without a body, whatever text its status line and headers have.  *)
EmptySent(w, n, a) ==
  /\ n \in 2 .. Len(w) /\ Len(w) = n + 3
  /\ w[1].kind = "status" /\ w[2] = Token("type", a.type)
  /\ \A i \in 3 .. n : w[i].kind \in {"cors", "header"}
  /\ Cardinality(Headers(w, n)) = a.headers
  /\ w[n + 1].kind = "end" /\ w[n + 2].kind = "last" /\ w[n + 3].kind = "last"

(* What holds of a response called in order: its state is that of the last  *)
(* call, and the status and type it will write are those asked for.         *)
InOrder(r) ==
  /\ r.asked.rank \in 1 .. 3 <=> r.state = "HeadersOpen"
  /\ r.asked.rank = 0 <=> r.state = "Start"
  /\ r.asked.rank = 4 <=> r.state = "BodyStreaming"
  /\ r.asked.rank = 5 <=> r.state = "Done"
  /\ r.asked.rank = 4 => r.asked.body # "none"
  /\ r.asked.rank <= 3 => r.status = r.asked.status /\ r.type = r.asked.type

(* What has been written by then on the desktop, and on the ESP32.          *)
DesktopSent(r) ==
  /\ r.asked.rank \in 1 .. 3 => Opened(r.wire, Len(r.wire), r.asked)
  /\ r.asked.body # "none" => \E n \in Nat : BodySent(r.wire, n, r.asked)

Esp32Sent(r) ==
  LET lines == r.pending.lines IN
  /\ r.asked.rank <= 3 =>
       /\ IsFiniteSet(Headers(lines, Len(lines)))
       /\ Cardinality(Headers(lines, Len(lines))) = r.asked.headers
  /\ r.asked.rank = 5 /\ r.asked.body = "none" => \E n \in Nat : EmptySent(r.wire, n, r.asked)

Ordered(pl, r) ==
  r.asked.rank # OutOfOrder =>
    InOrder(r) /\ IF pl = "desktop" THEN DesktopSent(r) ELSE Esp32Sent(r)

Good(pl, r) == Written(pl, r) /\ Ordered(pl, r)

-----------------------------------------------------------------------------
(* How the head grows, closes and is followed by a body.                    *)

(* A response with another wire, state or pending head is a response.       *)
LEMMA ResponseParts ==
  ASSUME NEW r \in Response
  PROVE  /\ r.state \in States /\ r.status \in Values /\ r.type \in Values /\ r.wire \in Seq(Tokens)
         /\ r.pending.status \in Values /\ r.pending.type \in Values
         /\ r.pending.dangling \in BOOLEAN
         /\ r.pending.lines \in Seq(Tokens)
         /\ r.asked.status \in Values /\ r.asked.type \in Values /\ r.asked.headers \in Nat
         /\ r.asked.body \in {"none", "empty", "text"} /\ r.asked.rank \in 0 .. 6
         /\ r.asked \in Asked /\ Len(r.wire) \in Nat /\ Len(r.pending.lines) \in Nat
BY LenProperties DEF Response, Asked

(* c header lines, and nothing else counted.                                *)
Counted(w, c) ==
  IsFiniteSet(Headers(w, Len(w))) /\ Cardinality(Headers(w, Len(w))) = c

(* Lines added to an open head add their headers.                           *)
LEMMA HeadersGrow ==
  ASSUME NEW w \in Seq(Tokens), NEW x \in Tokens, NEW c \in Nat, Counted(w, c)
  PROVE  Counted(w \o <<x>>, IF x.kind = "header" THEN c + 1 ELSE c)
<1> DEFINE u == w \o <<x>>
<1>1. /\ u \in Seq(Tokens) /\ Len(u) = Len(w) + 1 /\ Len(w) \in Nat
      /\ \A i \in 1 .. Len(w) : u[i] = w[i]
      /\ u[Len(w) + 1] = x
  <2>1. <<x>> \in Seq(Tokens) /\ Len(<<x>>) = 1 /\ <<x>>[1] = x
    BY One
  <2> DEFINE t == <<x>>
  <2> HIDE DEF t
  <2>2. t \in Seq(Tokens) /\ Len(t) = 1 /\ t[1] = x /\ u = w \o t
    BY <2>1 DEF t, u
  <2>3. Joins(u, w, t)
    BY <2>2, Joined
  <2> QED BY <2>2, <2>3 DEF Joins
<1> HIDE DEF u
<1> DEFINE H == Headers(w, Len(w))
<1> DEFINE k == Len(w) + 1
<1>2. k \notin H
  BY <1>1 DEF Headers
<1>3. Headers(u, Len(u)) = IF x.kind = "header" THEN H \cup {k} ELSE H
  BY <1>1 DEF Headers
<1> HIDE DEF H, k
<1>4. IsFiniteSet(H \cup {k}) /\ Cardinality(H \cup {k}) = Cardinality(H) + 1
  BY <1>2, FS_AddElement DEF H, Counted
<1>5. Counted(u, IF x.kind = "header" THEN c + 1 ELSE c)
  BY <1>3, <1>4 DEF H, Counted
<1> QED BY <1>5 DEF u

(* The head as the first operation opens it, ...                            *)
LEMMA HeadOpens ==
  ASSUME NEW code \in Values, NEW a \in Asked, a.headers = 0, a.status = code
  PROVE  LET w == StatusLines(code) IN Opened(w, Len(w), a)
<1> DEFINE w == StatusLines(code)
<1>1. /\ w \in Seq(Tokens) /\ Len(w) = 2
      /\ w[1] = Token("status", code) /\ w[2] = Token("cors", "any")
  BY StatusWritten
<1>2. Token("status", code).kind = "status" /\ Token("cors", "any").kind = "cors"
  BY TokenOK DEF Kinds, Values
<1> HIDE DEF w
<1>3. Headers(w, Len(w)) = {}
  BY <1>1, <1>2 DEF Headers
<1>4. IsFiniteSet({}) /\ Cardinality({}) = 0
  BY FS_EmptySet
<1>5. Len(w) \in 2 .. Len(w) /\ \A i \in 2 .. Len(w) : w[i].kind \in {"cors", "header"}
  BY <1>1, <1>2
<1>6. Opened(w, Len(w), a)
  BY <1>1, <1>3, <1>4, <1>5 DEF Opened
<1> QED BY <1>6 DEF w

(* ... as a header line extends it, ...                                     *)
LEMMA HeadExtended ==
  ASSUME NEW w \in Seq(Tokens), NEW a \in Asked, NEW b \in Asked, Opened(w, Len(w), a),
         b.status = a.status, b.headers = a.headers + 1,
         NEW u, u = w \o HeaderLine
  PROVE  Opened(u, Len(u), b)
<1> DEFINE x == Token("header", "line")
<1>1. /\ HeaderLine = <<x>> /\ x \in Tokens /\ x.kind = "header" /\ x.value = "line"
      /\ u = w \o <<x>>
  BY TokenOK DEF Kinds, Values, HeaderLine
<1>2. a.headers \in Nat
  BY DEF Asked
<1> HIDE DEF x
<1>3. Counted(w, a.headers)
  BY DEF Opened, Counted
<1>4. Counted(w \o <<x>>, a.headers + 1)
  BY <1>1, <1>2, <1>3, HeadersGrow
<1>5. /\ u \in Seq(Tokens) /\ Len(u) = Len(w) + 1 /\ Len(w) \in Nat
      /\ \A i \in 1 .. Len(w) : u[i] = w[i]
      /\ u[Len(w) + 1].kind = "header" /\ u[Len(w) + 1].value = "line"
  <2>1. HeaderLine \in Seq(Tokens) /\ Len(HeaderLine) = 1 /\ HeaderLine[1] = x
    BY HeaderWritten DEF x
  <2>2. Joins(u, w, HeaderLine)
    BY <2>1, Joined
  <2> QED BY <1>1, <2>1, <2>2 DEF Joins
<1>6. /\ Len(w) >= 2 /\ w[1] = Token("status", a.status)
      /\ \A i \in 2 .. Len(w) : w[i].kind \in {"cors", "header"}
  BY <1>5 DEF Opened
<1>7. \A i \in 2 .. Len(u) : u[i].kind \in {"cors", "header"}
  <2> TAKE i \in 2 .. Len(u)
  <2> DEFINE n == Len(w)
  <2>0. n \in Nat /\ Len(u) = n + 1
    BY <1>5
  <2> HIDE DEF n
  <2>1. i = n + 1 \/ (i \in 2 .. n /\ i \in 1 .. n)
    BY <2>0
  <2> QED BY <1>5, <1>6, <2>1 DEF n
<1>8. Len(u) \in 2 .. Len(u) /\ u[1] = Token("status", b.status)
  BY <1>5, <1>6
<1>9. \A i \in Headers(u, Len(u)) : u[i].value = "line"
  <2> TAKE i \in Headers(u, Len(u))
  <2>1. i \in 1 .. Len(u) /\ u[i].kind = "header"
    BY DEF Headers
  <2>2. CASE i \in 1 .. Len(w)
    <3>1. i \in Headers(w, Len(w)) /\ u[i] = w[i]
      BY <1>5, <2>1, <2>2 DEF Headers
    <3> QED BY <3>1 DEF Opened
  <2>3. CASE i = Len(w) + 1
    BY <1>5, <2>3
  <2> QED BY <1>5, <2>1, <2>2, <2>3
<1> QED BY <1>1, <1>4, <1>7, <1>8, <1>9 DEF Opened, Counted

(* ... and as the body closes it.                                           *)
LEMMA BodyCloses ==
  ASSUME NEW w \in Seq(Tokens), NEW a \in Asked, NEW b \in Asked, Opened(w, Len(w), a),
         b.status = a.status, b.headers = a.headers, b.type = a.type,
         b.body \in {"empty", "text"},
         NEW u, u = w \o (HeadTail(b.type, b.body) \o Bytes(b.body))
  PROVE  \E n \in Nat : BodySent(u, n, b)
<1> DEFINE n == Len(w)
<1> DEFINE h == HeadTail(b.type, b.body)
<1> DEFINE t == Bytes(b.body)
<1> DEFINE v == h \o t
<1>0. b.type \in Values /\ b.body \in Values
  BY DEF Asked, Values
<1>1. /\ h \in Seq(Tokens) /\ Len(h) = 3
      /\ h[1] = Token("type", b.type) /\ h[2] = Token("length", b.body) /\ h[3] = Token("end", "head")
  BY <1>0, HeadTailWritten
<1>2. t \in Seq(Tokens) /\ IF b.body = "empty" THEN t = <<>> ELSE Len(t) = 1 /\ t[1] = Token("body", b.body)
  BY BytesWritten
<1>2a. Len(t) = IF b.body = "empty" THEN 0 ELSE 1
  BY <1>2
<1>4. u = w \o v
  OBVIOUS
<1> HIDE DEF h, t
<1>3a. Joins(v, h, t)
  BY <1>1, <1>2, Joined
<1> HIDE DEF v
<1>3. /\ v \in Seq(Tokens) /\ Len(v) = Len(h) + Len(t)
      /\ \A i \in 1 .. Len(h) : v[i] = h[i]
      /\ \A i \in 1 .. Len(t) : v[Len(h) + i] = t[i]
  BY <1>3a DEF Joins
<1>5a. Joins(u, w, v)
  BY <1>3, <1>4, Joined
<1>5. /\ Len(u) = Len(w) + Len(v) /\ Len(w) \in Nat
      /\ \A i \in 1 .. Len(w) : u[i] = w[i]
      /\ \A i \in 1 .. Len(v) : u[Len(w) + i] = v[i]
  BY <1>5a DEF Joins
<1>6. Len(v) = 3 + Len(t) /\ v[1] = h[1] /\ v[2] = h[2] /\ v[3] = h[3]
  BY <1>1, <1>2a, <1>3
<1>7. u[n + 1] = h[1] /\ u[n + 2] = h[2] /\ u[n + 3] = h[3]
  BY <1>2a, <1>5, <1>6
<1>8. b.body # "empty" => u[n + 4] = Token("body", b.body)
  <2> SUFFICES ASSUME b.body # "empty" PROVE u[n + 4] = Token("body", b.body)
    OBVIOUS
  <2>1. v[4] = t[1] /\ Len(v) = 4
    BY <1>1, <1>2a, <1>3
  <2>2. u[n + 4] = v[4]
    BY <1>5, <2>1
  <2> QED BY <1>2, <2>1, <2>2
<1>9. Len(u) = IF b.body = "empty" THEN n + 3 ELSE n + 4
  BY <1>2a, <1>5, <1>6
<1>10. Opened(u, n, b)
  <2>1. /\ n \in 2 .. n /\ w[1] = Token("status", a.status)
        /\ \A i \in 2 .. n : w[i].kind \in {"cors", "header"}
        /\ IsFiniteSet(Headers(w, n)) /\ Cardinality(Headers(w, n)) = a.headers
        /\ \A i \in Headers(w, n) : w[i].value = "line"
    BY DEF Opened
  <2>2. Headers(u, n) = Headers(w, n)
    BY <1>5 DEF Headers
  <2>3. n \in 2 .. Len(u)
    BY <1>5, <1>9, <2>1
  <2>4. \A i \in 2 .. n : u[i].kind \in {"cors", "header"}
    BY <1>5, <2>1
  <2>5. u[1] = Token("status", b.status)
    BY <1>5, <2>1
  <2>6. \A i \in Headers(u, n) : u[i].value = "line"
    <3>1. \A i \in Headers(w, n) : i \in 1 .. Len(w)
      BY DEF Headers
    <3> QED BY <1>5, <2>1, <2>2, <3>1
  <2> HIDE DEF n
  <2> QED BY <2>1, <2>2, <2>3, <2>4, <2>5, <2>6 DEF Opened
<1>11. BodySent(u, n, b)
  <2>1. n \in Nat /\ n + 3 <= Len(u)
    BY <1>5, <1>9
  <2> HIDE DEF n
  <2> QED BY <1>1, <1>7, <1>8, <1>9, <1>10, <2>1 DEF BodySent
<1> QED BY <1>5, <1>11

-----------------------------------------------------------------------------
(* What an operation remembers of the call that made it, and the head that  *)
(* every operation of the desktop opens first.                              *)

(* The rank after a call of this rank.                                      *)
Turn(rank, before) ==
  IF rank > before \/ (rank = 3 /\ before = 3) THEN rank ELSE OutOfOrder

(* q is x after a call that `asked' remembers.                              *)
Remembers(q, x, rank, field, value) ==
  /\ q \in Response
  /\ q.state = x.state /\ q.status = x.status /\ q.type = x.type
  /\ q.wire = x.wire /\ q.pending = x.pending
  /\ q.asked.status = IF field = "status" THEN value ELSE x.asked.status
  /\ q.asked.type = IF field = "type" THEN value ELSE x.asked.type
  /\ q.asked.headers = IF field = "headers" THEN value ELSE x.asked.headers
  /\ q.asked.body = IF field = "body" THEN value ELSE x.asked.body
  /\ q.asked.rank = Turn(rank, x.asked.rank)

LEMMA Asks ==
  ASSUME NEW x \in Response, NEW rank \in 1 .. 5,
         NEW field \in {"status", "type", "headers", "body"}, NEW value,
         field \in {"status", "type"} => value \in Values,
         field = "headers" => value \in Nat,
         field = "body" => value \in {"none", "empty", "text"}
  PROVE  Remembers(Ask(x, rank, field, value), x, rank, field, value)
<1> DEFINE y == [x EXCEPT !.asked[field] = value]
<1> DEFINE q == Ask(x, rank, field, value)
<1>1. q = InTurn(y, rank)
  BY DEF Ask
<1>2. /\ y = [state |-> x.state, status |-> x.status, type |-> x.type, wire |-> x.wire,
              pending |-> x.pending, asked |-> y.asked]
      /\ y.asked =
             [status |-> IF field = "status" THEN value ELSE x.asked.status,
              type |-> IF field = "type" THEN value ELSE x.asked.type,
              headers |-> IF field = "headers" THEN value ELSE x.asked.headers,
              body |-> IF field = "body" THEN value ELSE x.asked.body,
              rank |-> x.asked.rank]
  BY AskedFor
<1>3. x.asked \in Asked
  BY DEF Response
<1> HIDE DEF y, q
<1>4. y.asked \in Asked
  BY <1>2, <1>3 DEF Asked
<1>5. y \in Response
  BY <1>2, <1>4 DEF Response
<1>6. /\ q = [state |-> y.state, status |-> y.status, type |-> y.type, wire |-> y.wire,
              pending |-> y.pending, asked |-> q.asked]
      /\ q.asked = [status |-> y.asked.status, type |-> y.asked.type, headers |-> y.asked.headers,
                    body |-> y.asked.body, rank |-> q.asked.rank]
      /\ q.asked.rank = IF rank > y.asked.rank \/ (rank = 3 /\ y.asked.rank = 3)
                        THEN rank ELSE OutOfOrder
  BY <1>1, <1>5, TurnTaken
<1>7. q.asked.rank \in 0 .. 6 /\ q.asked.rank = Turn(rank, x.asked.rank)
  BY <1>2, <1>6 DEF OutOfOrder, Turn
<1>8. q.asked \in Asked
  BY <1>4, <1>6, <1>7 DEF Asked
<1>9. q \in Response
  BY <1>5, <1>6, <1>8 DEF Response
<1>10. /\ q.state = x.state /\ q.status = x.status /\ q.type = x.type
       /\ q.wire = x.wire /\ q.pending = x.pending
  BY <1>2, <1>6
<1>11. /\ q.asked.status = IF field = "status" THEN value ELSE x.asked.status
       /\ q.asked.type = IF field = "type" THEN value ELSE x.asked.type
       /\ q.asked.headers = IF field = "headers" THEN value ELSE x.asked.headers
       /\ q.asked.body = IF field = "body" THEN value ELSE x.asked.body
  BY <1>2, <1>6
<1>12. Remembers(q, x, rank, field, value)
  BY <1>7, <1>9, <1>10, <1>11 DEF Remembers
<1> QED BY <1>12 DEF q

(* finish() asks for nothing new.                                           *)
LEMMA Finishes ==
  ASSUME NEW x \in Response
  PROVE  Remembers(InTurn(x, 5), x, 5, "", "")
<1> DEFINE q == InTurn(x, 5)
<1>1. /\ q = [state |-> x.state, status |-> x.status, type |-> x.type, wire |-> x.wire,
              pending |-> x.pending, asked |-> q.asked]
      /\ q.asked = [status |-> x.asked.status, type |-> x.asked.type, headers |-> x.asked.headers,
                    body |-> x.asked.body, rank |-> q.asked.rank]
      /\ q.asked.rank = IF 5 > x.asked.rank \/ (5 = 3 /\ x.asked.rank = 3)
                        THEN 5 ELSE OutOfOrder
  BY TurnTaken
<1> HIDE DEF q
<1>2. q.asked.rank \in 0 .. 6 /\ q.asked.rank = Turn(5, x.asked.rank)
  BY <1>1 DEF OutOfOrder, Turn
<1>3. x.asked \in Asked
  BY DEF Response
<1>4. q.asked \in Asked
  BY <1>1, <1>2, <1>3 DEF Asked
<1>5. q \in Response
  BY <1>1, <1>4 DEF Response
<1>6. /\ q.state = x.state /\ q.status = x.status /\ q.type = x.type
      /\ q.wire = x.wire /\ q.pending = x.pending
      /\ q.asked.status = x.asked.status /\ q.asked.type = x.asked.type
      /\ q.asked.headers = x.asked.headers /\ q.asked.body = x.asked.body
  BY <1>1
<1>7. Remembers(q, x, 5, "", "")
  BY <1>2, <1>5, <1>6 DEF Remembers
<1> QED BY <1>7 DEF q

-----------------------------------------------------------------------------

(* The head is open, by this call or by an earlier one.                     *)
HeadOpen(o, r, code) ==
  /\ o \in Response /\ o.state = "HeadersOpen" /\ o.status = r.status /\ o.type = r.type
  /\ o.pending = r.pending /\ o.asked = r.asked /\ NoEnd(o.wire)
  /\ o.wire = IF r.state = "Start" THEN StatusLines(code) ELSE r.wire

LEMMA OpenHeadOK ==
  ASSUME NEW r, Written("desktop", r), r.state \in {"Start", "HeadersOpen"}, NEW code \in Values
  PROVE  HeadOpen(OpenHead(r, code), r, code)
<1> DEFINE o == OpenHead(r, code)
<1>0. r \in Response /\ NoEnd(r.wire)
  BY DEF Written, Unsent
<1>1. CASE r.state = "HeadersOpen"
  <2>1. o = r
    BY <1>1 DEF OpenHead
  <2> QED BY <1>0, <1>1, <2>1 DEF HeadOpen
<1>2. CASE r.state = "Start"
  <2> DEFINE s == StatusLines(code)
  <2> DEFINE x == WriteStatusAndCors(r, code)
  <2>1. s \in Seq(Tokens) /\ NoEnd(s)
    BY StatusWritten
  <2>2. r.wire = <<>>
    BY <1>2 DEF Written, Fresh
  <2>3. <<>> \o s = s
    BY <2>1, ConcatEmptySeq
  <2>4. x = [r EXCEPT !.wire = @ \o s]
    BY DEF WriteStatusAndCors, Write, StatusLines
  <2>5. o = [x EXCEPT !.state = "HeadersOpen"]
    BY <1>2 DEF OpenHead
  <2> HIDE DEF s, x, o
  <2>6. x = [state |-> r.state, status |-> r.status, type |-> r.type, wire |-> s,
             pending |-> r.pending, asked |-> r.asked]
    BY <1>0, <2>2, <2>3, <2>4 DEF Response
  <2>7. o = [state |-> "HeadersOpen", status |-> r.status, type |-> r.type, wire |-> s,
             pending |-> r.pending, asked |-> r.asked]
    BY <2>5, <2>6
  <2>8. o \in Response
    BY <1>0, <2>1, <2>7 DEF Response, States
  <2>9. HeadOpen(o, r, code)
    BY <1>2, <2>1, <2>7, <2>8 DEF HeadOpen, s
  <2> QED BY <2>9 DEF o
<1> QED BY <1>1, <1>2

(* The open head is the one asked for.                                      *)
LEMMA OpenHeadInOrder ==
  ASSUME NEW r, Good("desktop", r), r.state \in {"Start", "HeadersOpen"},
         r.asked.rank # OutOfOrder, NEW code \in Values, NEW o, HeadOpen(o, r, code),
         NEW a \in Asked, a.headers = r.asked.headers,
         a.status = IF r.state = "Start" THEN code ELSE r.asked.status
  PROVE  Opened(o.wire, Len(o.wire), a)
<1>1. CASE r.state = "Start"
  <2>1. o.wire = StatusLines(code)
    BY <1>1 DEF HeadOpen
  <2>2. a.headers = 0
    BY <1>1 DEF Good, Written, Fresh
  <2> QED BY <1>1, <2>1, <2>2, HeadOpens
<1>2. CASE r.state = "HeadersOpen"
  <2>1. o.wire = r.wire
    BY <1>2 DEF HeadOpen
  <2>2. Opened(r.wire, Len(r.wire), r.asked)
    BY <1>2 DEF Good, Ordered, InOrder, DesktopSent
  <2> QED BY <1>2, <2>1, <2>2 DEF Opened
<1> QED BY <1>1, <1>2

-----------------------------------------------------------------------------
(* Every operation of the desktop keeps a response good ...                 *)

(* A call that leaves the head open.                                        *)
LEMMA DesktopHeadGood ==
  ASSUME NEW q \in Response, q.state = "HeadersOpen", q.asked.body = "none",
         NoEnd(q.wire), HeaderLines(q.pending.lines),
         q.asked.rank # OutOfOrder =>
           /\ q.asked.rank \in 1 .. 3
           /\ q.status = q.asked.status /\ q.type = q.asked.type
           /\ Opened(q.wire, Len(q.wire), q.asked)
  PROVE  Good("desktop", q)
<1>1. OneHead(q.wire)
  BY DEF OneHead, NoEnd
<1>2. Written("desktop", q)
  BY <1>1 DEF Written, Unsent
<1>3. q.asked.rank # OutOfOrder => InOrder(q)
  BY DEF InOrder
<1>4. q.asked.rank # OutOfOrder => DesktopSent(q)
  BY DEF DesktopSent
<1>5. Ordered("desktop", q)
  BY <1>3, <1>4 DEF Ordered
<1> QED BY <1>2, <1>5 DEF Good

(* A call of a rank is in order only behind lower ranks, or behind another  *)
(* header.                                                                  *)
LEMMA TurnOK ==
  ASSUME NEW k \in 1 .. 5, NEW b \in 0 .. 6
  PROVE  /\ Turn(k, b) \in {k, OutOfOrder}
         /\ Turn(k, b) # OutOfOrder => b # OutOfOrder /\ b <= k /\ (k # 3 => b < k)
BY DEF Turn, OutOfOrder

(* The state a response called in order has when it is called next.         *)
LEMMA HeaderState ==
  ASSUME NEW pl, NEW r, Good(pl, r), r.state \in {"Start", "HeadersOpen"}
  PROVE  /\ r \in Response /\ r.asked.body = "none" /\ HeaderLines(r.pending.lines)
         /\ r.asked.rank # OutOfOrder => r.status = r.asked.status /\ r.type = r.asked.type
<1>1. r \in Response /\ r.asked.body = "none" /\ HeaderLines(r.pending.lines)
  BY DEF Good, Written, Unsent
<1>2. r.asked.rank # OutOfOrder => InOrder(r) /\ r.asked.rank \in 0 .. 6
  BY <1>1, ResponseParts DEF Good, Ordered
<1>3. r.asked.rank # OutOfOrder => r.asked.rank <= 3
  BY <1>2 DEF InOrder
<1> QED BY <1>1, <1>2, <1>3 DEF InOrder

LEMMA OpenOrStart ==
  ASSUME NEW r \in Response, ~HeadersRefused(r)
  PROVE  r.state \in {"Start", "HeadersOpen"}
BY ResponseParts DEF States, HeadersRefused

(* set_status_code(), set_content_type() and add_header() on the desktop.   *)
LEMMA DesktopStatusGood ==
  ASSUME NEW r, Good("desktop", r), ~HeadersRefused(r), NEW code \in Values
  PROVE  Good("desktop", SetStatusCode("desktop", r, code))
<1>1. r \in Response /\ r.state \in {"Start", "HeadersOpen"} /\ Written("desktop", r)
  BY OpenOrStart DEF Good, Written
<1> DEFINE o == OpenHead(r, code)
<1> DEFINE x == DesktopStatus(r, code)
<1> DEFINE q == SetStatusCode("desktop", r, code)
<1>2. HeadOpen(o, r, code)
  BY <1>1, OpenHeadOK
<1>3. x = [o EXCEPT !.status = code] /\ q = Ask(x, 1, "status", code)
  BY DEF DesktopStatus, SetStatusCode
<1> HIDE DEF o, x, q
<1>4. x \in Response /\ x.state = "HeadersOpen" /\ x.status = code /\ x.type = r.type
      /\ x.pending = r.pending /\ x.asked = r.asked /\ x.wire = o.wire
  BY <1>2, <1>3 DEF HeadOpen, Response
<1>5. Remembers(q, x, 1, "status", code)
  BY <1>3, <1>4, Asks
<1>6. /\ q \in Response /\ q.state = "HeadersOpen" /\ q.status = code /\ q.type = r.type
      /\ q.pending = r.pending /\ q.wire = o.wire
      /\ q.asked.status = code /\ q.asked.type = r.asked.type
      /\ q.asked.headers = r.asked.headers /\ q.asked.body = r.asked.body
      /\ q.asked.rank = Turn(1, r.asked.rank)
  BY <1>4, <1>5 DEF Remembers
<1>7. /\ r.asked.body = "none" /\ HeaderLines(r.pending.lines)
      /\ r.asked.rank # OutOfOrder => r.status = r.asked.status /\ r.type = r.asked.type
  BY <1>1, HeaderState
<1>8. ASSUME q.asked.rank # OutOfOrder
      PROVE  /\ q.asked.rank \in 1 .. 3
             /\ q.status = q.asked.status /\ q.type = q.asked.type
             /\ Opened(q.wire, Len(q.wire), q.asked)
  <2>1. r.asked.rank \in 0 .. 6 /\ q.asked \in Asked
    BY <1>1, <1>6, ResponseParts
  <2>2. q.asked.rank = 1 /\ r.asked.rank = 0 /\ r.asked.rank # OutOfOrder
    BY <1>6, <1>8, <2>1, TurnOK DEF OutOfOrder
  <2>3. r.state = "Start"
    BY <2>2 DEF Good, Ordered, InOrder
  <2>4. Opened(o.wire, Len(o.wire), q.asked)
    BY <1>1, <1>2, <1>6, <2>1, <2>2, <2>3, OpenHeadInOrder
  <2> QED BY <1>6, <1>7, <2>2, <2>4
<1>9. NoEnd(q.wire)
  BY <1>2, <1>6 DEF HeadOpen
<1>10. Good("desktop", q)
  BY <1>6, <1>7, <1>8, <1>9, DesktopHeadGood
<1> QED BY <1>10 DEF q

LEMMA DesktopTypeGood ==
  ASSUME NEW r, Good("desktop", r), ~HeadersRefused(r), NEW type \in Values
  PROVE  Good("desktop", SetContentType("desktop", r, type))
<1>1. r \in Response /\ r.state \in {"Start", "HeadersOpen"} /\ Written("desktop", r)
  BY OpenOrStart DEF Good, Written
<1>1a. r.status \in Values
  BY <1>1, ResponseParts
<1> DEFINE o == OpenHead(r, r.status)
<1> DEFINE x == DesktopType(r, type)
<1> DEFINE q == SetContentType("desktop", r, type)
<1>2. HeadOpen(o, r, r.status)
  BY <1>1, <1>1a, OpenHeadOK
<1>3. x = [o EXCEPT !.type = type] /\ q = Ask(x, 2, "type", type)
  BY DEF DesktopType, SetContentType
<1> HIDE DEF o, x, q
<1>4. x \in Response /\ x.state = "HeadersOpen" /\ x.status = r.status /\ x.type = type
      /\ x.pending = r.pending /\ x.asked = r.asked /\ x.wire = o.wire
  BY <1>2, <1>3 DEF HeadOpen, Response
<1>5. Remembers(q, x, 2, "type", type)
  BY <1>3, <1>4, Asks
<1>6. /\ q \in Response /\ q.state = "HeadersOpen" /\ q.status = r.status /\ q.type = type
      /\ q.pending = r.pending /\ q.wire = o.wire
      /\ q.asked.status = r.asked.status /\ q.asked.type = type
      /\ q.asked.headers = r.asked.headers /\ q.asked.body = r.asked.body
      /\ q.asked.rank = Turn(2, r.asked.rank)
  BY <1>4, <1>5 DEF Remembers
<1>7. /\ r.asked.body = "none" /\ HeaderLines(r.pending.lines)
      /\ r.asked.rank # OutOfOrder => r.status = r.asked.status /\ r.type = r.asked.type
  BY <1>1, HeaderState
<1>8. ASSUME q.asked.rank # OutOfOrder
      PROVE  /\ q.asked.rank \in 1 .. 3
             /\ q.status = q.asked.status /\ q.type = q.asked.type
             /\ Opened(q.wire, Len(q.wire), q.asked)
  <2>1. r.asked.rank \in 0 .. 6 /\ q.asked \in Asked
    BY <1>1, <1>6, ResponseParts
  <2>2. q.asked.rank = 2 /\ r.asked.rank # OutOfOrder
    BY <1>6, <1>8, <2>1, TurnOK DEF OutOfOrder
  <2>3. q.asked.status = IF r.state = "Start" THEN r.status ELSE r.asked.status
    BY <1>6, <1>7, <2>2
  <2>4. Opened(o.wire, Len(o.wire), q.asked)
    BY <1>1, <1>1a, <1>2, <1>6, <2>1, <2>2, <2>3, OpenHeadInOrder
  <2> QED BY <1>6, <1>7, <2>2, <2>4
<1>9. NoEnd(q.wire)
  BY <1>2, <1>6 DEF HeadOpen
<1>10. Good("desktop", q)
  BY <1>6, <1>7, <1>8, <1>9, DesktopHeadGood
<1> QED BY <1>10 DEF q

LEMMA DesktopAddGood ==
  ASSUME NEW r, Good("desktop", r), ~HeadersRefused(r)
  PROVE  Good("desktop", AddHeader("desktop", r))
<1>1. r \in Response /\ r.state \in {"Start", "HeadersOpen"} /\ Written("desktop", r)
  BY OpenOrStart DEF Good, Written
<1>1a. r.status \in Values /\ r.asked.headers \in Nat /\ r.asked \in Asked
  BY <1>1, ResponseParts
<1> DEFINE o == OpenHead(r, r.status)
<1> DEFINE x == DesktopHeader(r)
<1> DEFINE q == AddHeader("desktop", r)
<1>2. HeadOpen(o, r, r.status)
  BY <1>1, <1>1a, OpenHeadOK
<1>3. x = [o EXCEPT !.wire = @ \o HeaderLine] /\ q = Ask(x, 3, "headers", r.asked.headers + 1)
  BY DEF DesktopHeader, AddHeader, Write, HeaderLine
<1> HIDE DEF o, x, q
<1>3a. o.wire \in Seq(Tokens) /\ NoEnd(o.wire)
  BY <1>2, ResponseParts DEF HeadOpen
<1>3b. o.wire \o HeaderLine \in Seq(Tokens) /\ NoEnd(o.wire \o HeaderLine)
  <2>1. HeaderLine \in Seq(Tokens) /\ NoEnd(HeaderLine)
    BY HeaderWritten
  <2>2. Joins(o.wire \o HeaderLine, o.wire, HeaderLine)
    BY <1>3a, <2>1, Joined
  <2> QED BY <1>3a, <2>1, <2>2, NoEndFollows DEF Joins
<1>4. x \in Response /\ x.state = "HeadersOpen" /\ x.status = r.status /\ x.type = r.type
      /\ x.pending = r.pending /\ x.asked = r.asked /\ x.wire = o.wire \o HeaderLine
  BY <1>2, <1>3, <1>3b DEF HeadOpen, Response
<1>5. Remembers(q, x, 3, "headers", r.asked.headers + 1)
  BY <1>1a, <1>3, <1>4, Asks
<1>6. /\ q \in Response /\ q.state = "HeadersOpen" /\ q.status = r.status /\ q.type = r.type
      /\ q.pending = r.pending /\ q.wire = o.wire \o HeaderLine
      /\ q.asked.status = r.asked.status /\ q.asked.type = r.asked.type
      /\ q.asked.headers = r.asked.headers + 1 /\ q.asked.body = r.asked.body
      /\ q.asked.rank = Turn(3, r.asked.rank)
  BY <1>4, <1>5 DEF Remembers
<1>7. /\ r.asked.body = "none" /\ HeaderLines(r.pending.lines)
      /\ r.asked.rank # OutOfOrder => r.status = r.asked.status /\ r.type = r.asked.type
  BY <1>1, HeaderState
<1>8. ASSUME q.asked.rank # OutOfOrder
      PROVE  /\ q.asked.rank \in 1 .. 3
             /\ q.status = q.asked.status /\ q.type = q.asked.type
             /\ Opened(q.wire, Len(q.wire), q.asked)
  <2>1. r.asked.rank \in 0 .. 6 /\ q.asked \in Asked
    BY <1>1, <1>6, ResponseParts
  <2>2. q.asked.rank = 3 /\ r.asked.rank # OutOfOrder
    BY <1>6, <1>8, <2>1, TurnOK DEF OutOfOrder
  <2>3. r.asked.status = IF r.state = "Start" THEN r.status ELSE r.asked.status
    BY <1>6, <1>7, <2>2
  <2>4. Opened(o.wire, Len(o.wire), r.asked)
    BY <1>1, <1>1a, <1>2, <2>2, <2>3, OpenHeadInOrder
  <2>5. Opened(q.wire, Len(q.wire), q.asked)
    BY <1>1a, <1>3a, <1>6, <2>1, <2>4, HeadExtended
  <2> QED BY <1>6, <1>7, <2>2, <2>5
<1>9. NoEnd(q.wire)
  BY <1>3b, <1>6
<1>10. Good("desktop", q)
  BY <1>6, <1>7, <1>8, <1>9, DesktopHeadGood
<1> QED BY <1>10 DEF q

(* Out of order, only Written has to be shown.                              *)
LEMMA LateGood ==
  ASSUME NEW pl, NEW q \in Response, q.state \in {"BodyStreaming", "Done"},
         OneHead(q.wire), HeaderLines(q.pending.lines), Ordered(pl, q)
  PROVE  Good(pl, q)
BY DEF Good, Written

(* set_body() and finish() on the desktop.                                  *)
LEMMA DesktopBodyGood ==
  ASSUME NEW r, Good("desktop", r), ~BodyRefused(r), NEW body \in {"empty", "text"}, NEW stale
  PROVE  Good("desktop", SetBody("desktop", r, body, stale))
<1>1. r \in Response /\ Written("desktop", r) /\ OneHead(r.wire) /\ HeaderLines(r.pending.lines)
  BY DEF Good, Written
<1>2. /\ r.status \in Values /\ r.type \in Values /\ r.wire \in Seq(Tokens)
      /\ r.asked.rank \in 0 .. 6 /\ r.asked \in Asked
      /\ r.state \in {"Start", "HeadersOpen", "BodyStreaming"}
  BY <1>1, ResponseParts DEF BodyRefused, States
<1> DEFINE o == OpenHead(r, r.status)
<1> DEFINE h == HeadTail(r.type, body)
<1> DEFINE b == Bytes(body)
<1> DEFINE t == (IF o.state = "HeadersOpen" THEN h ELSE <<>>) \o b
<1> DEFINE x == DesktopBody(r, body)
<1> DEFINE q == SetBody("desktop", r, body, stale)
<1>3. x = [Write(o, t) EXCEPT !.state = "BodyStreaming"] /\ q = Ask(x, 4, "body", body)
  BY DEF DesktopBody, SetBody, HeadTail
<1>4. body \in Values
  BY DEF Values
<1>5. h \in Seq(Tokens) /\ OneHead(h) /\ b \in Seq(Tokens) /\ OnlyBody(b)
  BY <1>2, <1>4, HeadTailWritten, BytesWritten
<1>6. /\ r.state \in {"Start", "HeadersOpen"} => HeadOpen(o, r, r.status)
      /\ r.state = "BodyStreaming" => o = r
  BY <1>1, <1>2, OpenHeadOK DEF OpenHead
<1>7. o \in Response /\ o.status = r.status /\ o.type = r.type /\ o.pending = r.pending /\ o.asked = r.asked
      /\ (o.state = "HeadersOpen" <=> r.state \in {"Start", "HeadersOpen"})
  BY <1>1, <1>2, <1>6 DEF HeadOpen
<1> DEFINE u == o.wire \o t
<1>8. r.state = "BodyStreaming" => t = b /\ u = r.wire \o b
  <2>1. <<>> \o b = b
    BY <1>5, ConcatEmptySeq
  <2> QED BY <1>6, <1>7, <2>1
<1>9. r.state # "BodyStreaming" => t = h \o b /\ u = o.wire \o (h \o b) /\ NoEnd(o.wire)
  BY <1>2, <1>6, <1>7 DEF HeadOpen
<1>10. o.wire \in Seq(Tokens)
  BY <1>7, ResponseParts
<1> HIDE DEF o, h, b, x, q, t
<1>11. h \o b \in Seq(Tokens) /\ OneHead(h \o b)
  BY <1>5, BodyFollows, ConcatProperties
<1>12. t \in Seq(Tokens)
  BY <1>5, <1>8, <1>9, <1>11
<1>13. u \in Seq(Tokens)
  BY <1>10, <1>12, ConcatProperties
<1> HIDE DEF u
<1>14. OneHead(u)
  <2>1. CASE r.state = "BodyStreaming"
    BY <1>1, <1>2, <1>5, <1>8, <2>1, BodyFollows
  <2>2. CASE r.state # "BodyStreaming"
    BY <1>9, <1>10, <1>11, <2>2, HeadFollows
  <2> QED BY <2>1, <2>2
<1>15. /\ x \in Response /\ x.state = "BodyStreaming" /\ x.status = r.status /\ x.type = r.type
       /\ x.pending = r.pending /\ x.asked = r.asked /\ x.wire = u
  BY <1>3, <1>7, <1>13 DEF Write, Response, States, u
<1>16. Remembers(q, x, 4, "body", body)
  BY <1>3, <1>15, Asks
<1>17. /\ q \in Response /\ q.state = "BodyStreaming" /\ q.status = r.status /\ q.type = r.type
       /\ q.pending = r.pending /\ q.wire = u
       /\ q.asked.status = r.asked.status /\ q.asked.type = r.asked.type
       /\ q.asked.headers = r.asked.headers /\ q.asked.body = body
       /\ q.asked.rank = Turn(4, r.asked.rank)
  BY <1>15, <1>16 DEF Remembers
<1>18. ASSUME q.asked.rank # OutOfOrder
       PROVE  InOrder(q) /\ DesktopSent(q)
  <2>1. q.asked.rank = 4 /\ r.asked.rank # OutOfOrder /\ r.asked.rank \in 0 .. 3
    BY <1>2, <1>17, <1>18, TurnOK DEF OutOfOrder
  <2>2. r.state \in {"Start", "HeadersOpen"}
    BY <2>1 DEF Good, Ordered, InOrder
  <2>3. InOrder(q)
    BY <1>17, <2>1 DEF InOrder
  <2>4. r.status = r.asked.status /\ r.type = r.asked.type
    BY <2>1, <2>2, HeaderState
  <2>5. Opened(o.wire, Len(o.wire), r.asked)
    BY <1>2, <1>6, <2>1, <2>2, <2>4, OpenHeadInOrder
  <2>6. u = o.wire \o (HeadTail(q.asked.type, q.asked.body) \o Bytes(q.asked.body))
    BY <1>9, <1>17, <2>2, <2>4 DEF h, b
  <2>7. q.asked \in Asked
    BY <1>17, ResponseParts
  <2>8. \E n \in Nat : BodySent(u, n, q.asked)
    BY <1>2, <1>10, <1>17, <2>5, <2>6, <2>7, BodyCloses
  <2> QED BY <1>17, <2>1, <2>3, <2>8 DEF DesktopSent
<1>19. Ordered("desktop", q)
  BY <1>18 DEF Ordered
<1>20. Good("desktop", q)
  BY <1>1, <1>14, <1>17, <1>19, LateGood
<1> QED BY <1>20 DEF q

LEMMA DesktopFinishGood ==
  ASSUME NEW r, Good("desktop", r), NEW stale
  PROVE  Good("desktop", Finish("desktop", r, stale)) /\ Finish("desktop", r, stale).state = "Done"
<1>0. CASE r.state = "Done"
  BY <1>0 DEF Finish
<1> SUFFICES ASSUME r.state # "Done"
             PROVE  Good("desktop", Finish("desktop", r, stale)) /\ Finish("desktop", r, stale).state = "Done"
  BY <1>0
<1>1. r \in Response /\ Written("desktop", r) /\ OneHead(r.wire) /\ HeaderLines(r.pending.lines)
  BY DEF Good, Written
<1>2. /\ r.status \in Values /\ r.type \in Values /\ r.wire \in Seq(Tokens)
      /\ r.asked.rank \in 0 .. 6 /\ r.asked \in Asked
      /\ r.state \in {"Start", "HeadersOpen", "BodyStreaming"}
  BY <1>1, ResponseParts DEF States
<1> DEFINE e == EmptyReply(r.status, r.type)
<1> DEFINE t == IF r.state = "BodyStreaming" THEN <<>> ELSE e
<1> DEFINE x == DesktopFinish(r)
<1> DEFINE q == Finish("desktop", r, stale)
<1> DEFINE u == r.wire \o t
<1>3. x = [Write(r, t) EXCEPT !.state = "Done"] /\ q = InTurn(x, 5)
  BY DEF DesktopFinish, Finish, EmptyReply
<1>4. e \in Seq(Tokens) /\ OneHead(e)
  BY <1>2, EmptyWritten
<1>5. r.state = "BodyStreaming" => u = r.wire
  BY <1>2, ConcatEmptySeq
<1>6. r.state # "BodyStreaming" => u = r.wire \o e /\ NoEnd(r.wire)
  BY <1>1, <1>2 DEF Written, Unsent
<1> HIDE DEF e, x, q
<1>7. u \in Seq(Tokens) /\ OneHead(u)
  <2>1. CASE r.state = "BodyStreaming"
    BY <1>1, <1>2, <1>5, <2>1
  <2>2. CASE r.state # "BodyStreaming"
    BY <1>2, <1>4, <1>6, <2>2, HeadFollows, ConcatProperties
  <2> QED BY <2>1, <2>2
<1> HIDE DEF t
<1>8. /\ x \in Response /\ x.state = "Done" /\ x.status = r.status /\ x.type = r.type
      /\ x.pending = r.pending /\ x.asked = r.asked /\ x.wire = u
  BY <1>1, <1>3, <1>7 DEF Write, Response, States
<1> HIDE DEF u
<1>9. Remembers(q, x, 5, "", "")
  BY <1>3, <1>8, Finishes
<1>10. /\ q \in Response /\ q.state = "Done" /\ q.pending = r.pending /\ q.wire = u
       /\ q.asked.status = r.asked.status /\ q.asked.type = r.asked.type
       /\ q.asked.headers = r.asked.headers /\ q.asked.body = r.asked.body
       /\ q.asked.rank = Turn(5, r.asked.rank)
  BY <1>8, <1>9 DEF Remembers
<1>11. ASSUME q.asked.rank # OutOfOrder
       PROVE  InOrder(q) /\ DesktopSent(q)
  <2>1. q.asked.rank = 5 /\ r.asked.rank # OutOfOrder
    BY <1>2, <1>10, <1>11, TurnOK DEF OutOfOrder
  <2>2. InOrder(q)
    BY <1>10, <2>1 DEF InOrder
  <2>3. r.asked.body # "none" => \E n \in Nat : BodySent(r.wire, n, r.asked)
    BY <2>1 DEF Good, Ordered, DesktopSent
  <2>4. r.asked.body # "none" => u = r.wire
    BY <1>1, <1>2, <1>5 DEF Written, Unsent
  <2>5. q.asked.body # "none" => \E n \in Nat : BodySent(q.wire, n, q.asked)
    BY <1>10, <2>3, <2>4 DEF BodySent, Opened
  <2> QED BY <2>1, <2>2, <2>5 DEF DesktopSent
<1>12. Ordered("desktop", q)
  BY <1>11 DEF Ordered
<1>13. Good("desktop", q)
  BY <1>1, <1>7, <1>10, <1>12, LateGood
<1> QED BY <1>10, <1>13 DEF q

-----------------------------------------------------------------------------
(* ... and every one of the ESP32.                                          *)

(* No lines.                                                                *)
LEMMA NoneCounted == Counted(<<>>, 0) /\ HeaderLines(<<>>) /\ <<>> \in Seq(Tokens)
<1>1. Headers(<<>>, Len(<<>>)) = {}
  BY DEF Headers
<1>2. IsFiniteSet({}) /\ Cardinality({}) = 0
  BY FS_EmptySet
<1> QED BY <1>1, <1>2 DEF Counted, HeaderLines

(* A line more in the head that the library keeps.                          *)
LEMMA LineAdded ==
  ASSUME NEW w \in Seq(Tokens), HeaderLines(w), NEW x \in Tokens, x.kind \in {"cors", "header"}
  PROVE  /\ Append(w, x) \in Seq(Tokens) /\ HeaderLines(Append(w, x))
         /\ \A c \in Nat : Counted(w, c) =>
              Counted(Append(w, x), IF x.kind = "header" THEN c + 1 ELSE c)
<1> DEFINE u == Append(w, x)
<1>1. u \in Seq(Tokens) /\ Len(u) = Len(w) + 1 /\ Len(w) \in Nat
      /\ (\A i \in 1 .. Len(w) : u[i] = w[i]) /\ u[Len(w) + 1] = x
  BY AppendProperties, LenProperties
<1>2. u = w \o <<x>>
  BY AppendIsConcat
<1> HIDE DEF u
<1>3. HeaderLines(u)
  <2> SUFFICES ASSUME NEW i \in 1 .. Len(u) PROVE u[i].kind \in {"cors", "header"}
    BY DEF HeaderLines
  <2>1. i = Len(w) + 1 \/ i \in 1 .. Len(w)
    BY <1>1
  <2> QED BY <1>1, <2>1 DEF HeaderLines
<1>4. ASSUME NEW c \in Nat, Counted(w, c) PROVE Counted(u, IF x.kind = "header" THEN c + 1 ELSE c)
  <2>1. Counted(w \o <<x>>, IF x.kind = "header" THEN c + 1 ELSE c)
    BY <1>4, HeadersGrow
  <2> QED BY <1>2, <2>1
<1>5. u \in Seq(Tokens) /\ HeaderLines(u)
         /\ \A c \in Nat : Counted(w, c) =>
              Counted(u, IF x.kind = "header" THEN c + 1 ELSE c)
  BY <1>1, <1>3, <1>4
<1> QED BY <1>5 DEF u

(* A call that leaves the head unsent.                                      *)
LEMMA Esp32HeadGood ==
  ASSUME NEW q \in Response, q.state = "HeadersOpen", q.asked.body = "none",
         q.wire = <<>>, HeaderLines(q.pending.lines),
         q.asked.rank # OutOfOrder =>
           /\ q.asked.rank \in 1 .. 3
           /\ q.status = q.asked.status /\ q.type = q.asked.type
           /\ Counted(q.pending.lines, q.asked.headers)
  PROVE  Good("esp32", q)
<1>1. OneHead(q.wire)
  BY NothingWritten
<1>2. Written("esp32", q)
  BY <1>1 DEF Written, Unsent
<1>3. q.asked.rank # OutOfOrder => InOrder(q)
  BY DEF InOrder
<1>4. q.asked.rank # OutOfOrder => Esp32Sent(q)
  BY DEF Esp32Sent, Counted
<1>5. Ordered("esp32", q)
  BY <1>3, <1>4 DEF Ordered
<1> QED BY <1>2, <1>5 DEF Good

(* The state a response called in order has when it is called next.         *)
LEMMA Esp32State ==
  ASSUME NEW r, Good("esp32", r), r.state \in {"Start", "HeadersOpen"}
  PROVE  /\ r.wire = <<>> /\ r.asked.body = "none" /\ HeaderLines(r.pending.lines)
         /\ r.asked.rank # OutOfOrder =>
              /\ r.status = r.asked.status /\ r.type = r.asked.type
              /\ Counted(r.pending.lines, r.asked.headers)
<1>1. r \in Response /\ r.wire = <<>>
  BY DEF Good, Written, Unsent
<1>2. r.asked.rank # OutOfOrder => InOrder(r) /\ Esp32Sent(r) /\ r.asked.rank \in 0 .. 6
  BY <1>1, ResponseParts DEF Good, Ordered
<1>3. r.asked.rank # OutOfOrder => r.asked.rank <= 3
  BY <1>2 DEF InOrder
<1>4. r.asked.rank # OutOfOrder => Counted(r.pending.lines, r.asked.headers)
  BY <1>2, <1>3 DEF Esp32Sent, Counted
<1> QED BY <1>1, <1>4, HeaderState

(* set_status_code(), set_content_type() and add_header() on the ESP32.     *)
LEMMA Esp32StatusGood ==
  ASSUME NEW r, Good("esp32", r), ~HeadersRefused(r), NEW code \in Values
  PROVE  Good("esp32", SetStatusCode("esp32", r, code))
<1>1. r \in Response /\ r.state \in {"Start", "HeadersOpen"}
  BY OpenOrStart DEF Good, Written
<1> DEFINE x == Esp32Status(r, code)
<1> DEFINE q == SetStatusCode("esp32", r, code)
<1>2. x = [[r EXCEPT !.state = "HeadersOpen"] EXCEPT !.status = code] /\ q = Ask(x, 1, "status", code)
  <2>1. EnsureHeadersOpen(r) = [r EXCEPT !.state = "HeadersOpen"]
    BY <1>1 DEF EnsureHeadersOpen, Response
  <2> QED BY <2>1 DEF Esp32Status, SetStatusCode
<1> HIDE DEF x, q
<1>4. x \in Response /\ x.state = "HeadersOpen" /\ x.status = code /\ x.type = r.type
      /\ x.pending = r.pending /\ x.asked = r.asked /\ x.wire = r.wire
  BY <1>1, <1>2 DEF Response, States
<1>5. Remembers(q, x, 1, "status", code)
  BY <1>2, <1>4, Asks
<1>6. /\ q \in Response /\ q.state = "HeadersOpen" /\ q.status = code /\ q.type = r.type
      /\ q.pending = r.pending /\ q.wire = r.wire
      /\ q.asked.status = code /\ q.asked.type = r.asked.type
      /\ q.asked.headers = r.asked.headers /\ q.asked.body = r.asked.body
      /\ q.asked.rank = Turn(1, r.asked.rank)
  BY <1>4, <1>5 DEF Remembers
<1>7. /\ r.wire = <<>> /\ r.asked.body = "none" /\ HeaderLines(r.pending.lines)
      /\ r.asked.rank # OutOfOrder =>
           /\ r.status = r.asked.status /\ r.type = r.asked.type
           /\ Counted(r.pending.lines, r.asked.headers)
  BY <1>1, Esp32State
<1>8. ASSUME q.asked.rank # OutOfOrder
      PROVE  q.asked.rank \in 1 .. 3 /\ r.asked.rank # OutOfOrder
  <2>1. r.asked.rank \in 0 .. 6
    BY <1>1, ResponseParts
  <2> QED BY <1>6, <1>8, <2>1, TurnOK DEF OutOfOrder
<1>9. Good("esp32", q)
  BY <1>6, <1>7, <1>8, Esp32HeadGood
<1> QED BY <1>9 DEF q

LEMMA Esp32TypeGood ==
  ASSUME NEW r, Good("esp32", r), ~HeadersRefused(r), NEW type \in Values
  PROVE  Good("esp32", SetContentType("esp32", r, type))
<1>1. r \in Response /\ r.state \in {"Start", "HeadersOpen"}
  BY OpenOrStart DEF Good, Written
<1> DEFINE x == Esp32Type(r, type)
<1> DEFINE q == SetContentType("esp32", r, type)
<1>2. x = [[r EXCEPT !.state = "HeadersOpen"] EXCEPT !.type = type] /\ q = Ask(x, 2, "type", type)
  <2>1. EnsureHeadersOpen(r) = [r EXCEPT !.state = "HeadersOpen"]
    BY <1>1 DEF EnsureHeadersOpen, Response
  <2> QED BY <2>1 DEF Esp32Type, SetContentType
<1> HIDE DEF x, q
<1>4. x \in Response /\ x.state = "HeadersOpen" /\ x.status = r.status /\ x.type = type
      /\ x.pending = r.pending /\ x.asked = r.asked /\ x.wire = r.wire
  BY <1>1, <1>2 DEF Response, States
<1>5. Remembers(q, x, 2, "type", type)
  BY <1>2, <1>4, Asks
<1>6. /\ q \in Response /\ q.state = "HeadersOpen" /\ q.status = r.status /\ q.type = type
      /\ q.pending = r.pending /\ q.wire = r.wire
      /\ q.asked.status = r.asked.status /\ q.asked.type = type
      /\ q.asked.headers = r.asked.headers /\ q.asked.body = r.asked.body
      /\ q.asked.rank = Turn(2, r.asked.rank)
  BY <1>4, <1>5 DEF Remembers
<1>7. /\ r.wire = <<>> /\ r.asked.body = "none" /\ HeaderLines(r.pending.lines)
      /\ r.asked.rank # OutOfOrder =>
           /\ r.status = r.asked.status /\ r.type = r.asked.type
           /\ Counted(r.pending.lines, r.asked.headers)
  BY <1>1, Esp32State
<1>8. ASSUME q.asked.rank # OutOfOrder
      PROVE  q.asked.rank \in 1 .. 3 /\ r.asked.rank # OutOfOrder
  <2>1. r.asked.rank \in 0 .. 6
    BY <1>1, ResponseParts
  <2> QED BY <1>6, <1>8, <2>1, TurnOK DEF OutOfOrder
<1>9. Good("esp32", q)
  BY <1>6, <1>7, <1>8, Esp32HeadGood
<1> QED BY <1>9 DEF q

(* What the library keeps until the first chunk: r has gained these lines.  *)
PendingOK(x, r, lines) ==
  /\ x \in Response /\ x.state = r.state /\ x.status = r.status /\ x.type = r.type
  /\ x.wire = r.wire /\ x.asked = r.asked /\ x.pending.lines = lines

LEMMA CorsSet ==
  ASSUME NEW r \in Response, NEW code \in Values, HeaderLines(r.pending.lines)
  PROVE  LET lines == Append(r.pending.lines, Token("cors", "any"))
             x == SetStatusAndCors(r, code)
         IN /\ PendingOK(x, r, lines)
            /\ HeaderLines(lines)
            /\ \A c \in Nat : Counted(r.pending.lines, c) => Counted(lines, c)
<1> DEFINE t == Token("cors", "any")
<1> DEFINE lines == Append(r.pending.lines, t)
<1> DEFINE x == SetStatusAndCors(r, code)
<1>1. t \in Tokens /\ t.kind = "cors"
  BY TokenOK DEF Kinds, Values
<1>2. r.pending.lines \in Seq(Tokens)
  BY ResponseParts
<1>3. x = [r EXCEPT !.pending.status = code, !.pending.dangling = TRUE, !.pending.lines = lines]
  BY DEF SetStatusAndCors
<1> HIDE DEF x, t
<1>4. /\ lines \in Seq(Tokens) /\ HeaderLines(lines)
      /\ \A c \in Nat : Counted(r.pending.lines, c) => Counted(lines, c)
  BY <1>1, <1>2, LineAdded
<1> HIDE DEF lines
<1>5. /\ x = [state |-> r.state, status |-> r.status, type |-> r.type, wire |-> r.wire,
              pending |-> x.pending, asked |-> r.asked]
      /\ x.pending = [status |-> code, dangling |-> TRUE, type |-> r.pending.type, lines |-> lines]
  BY <1>3 DEF Response
<1>6. x \in Response
  <2>1. r.pending.type \in Values
    BY ResponseParts
  <2>2. x.pending \in [status : Values, dangling : BOOLEAN, type : Values, lines : Seq(Tokens)]
    BY <1>4, <1>5, <2>1
  <2>3. /\ r.state \in States /\ r.status \in Values /\ r.type \in Values
        /\ r.wire \in Seq(Tokens) /\ r.asked \in Asked
    BY ResponseParts
  <2> DEFINE p == x.pending
  <2>4. x = [state |-> r.state, status |-> r.status, type |-> r.type, wire |-> r.wire,
             pending |-> p, asked |-> r.asked]
    BY <1>5
  <2> HIDE DEF p
  <2>5. p \in [status : Values, dangling : BOOLEAN, type : Values, lines : Seq(Tokens)]
    BY <2>2 DEF p
  <2> QED BY <2>3, <2>4, <2>5 DEF Response
<1>7. PendingOK(x, r, lines)
  BY <1>5, <1>6 DEF PendingOK
<1> QED BY <1>4, <1>7 DEF x, lines, t

LEMMA Esp32AddGood ==
  ASSUME NEW r, Good("esp32", r), ~HeadersRefused(r)
  PROVE  Good("esp32", AddHeader("esp32", r))
<1>1. r \in Response /\ r.state \in {"Start", "HeadersOpen"}
  BY OpenOrStart DEF Good, Written
<1>2. /\ r.wire = <<>> /\ r.asked.body = "none" /\ HeaderLines(r.pending.lines)
      /\ r.asked.rank # OutOfOrder =>
           /\ r.status = r.asked.status /\ r.type = r.asked.type
           /\ Counted(r.pending.lines, r.asked.headers)
  BY <1>1, Esp32State
<1>3. /\ r.status \in Values /\ r.asked.headers \in Nat /\ r.asked.rank \in 0 .. 6
  BY <1>1, ResponseParts
<1> DEFINE t == Token("header", "line")
<1> DEFINE f == IF r.state = "Start" THEN SetStatusAndCors(r, r.status) ELSE r
<1> DEFINE lines == Append(f.pending.lines, t)
<1> DEFINE x == Esp32Header(r)
<1> DEFINE q == AddHeader("esp32", r)
<1>4. /\ PendingOK(f, r, f.pending.lines) /\ HeaderLines(f.pending.lines)
      /\ \A c \in Nat : Counted(r.pending.lines, c) => Counted(f.pending.lines, c)
  <2>1. CASE r.state = "Start"
    BY <1>1, <1>2, <1>3, <2>1, CorsSet DEF PendingOK
  <2>2. CASE r.state # "Start"
    BY <1>1, <1>2, <2>2 DEF PendingOK
  <2> QED BY <2>1, <2>2
<1>5. x = [EnsureHeadersOpen(f) EXCEPT !.pending.lines = Append(@, t)]
      /\ q = Ask(x, 3, "headers", r.asked.headers + 1)
  BY DEF Esp32Header, AddHeader
<1>6. t \in Tokens /\ t.kind = "header"
  BY TokenOK DEF Kinds, Values
<1> HIDE DEF t, f, x, q
<1>7. f.state = r.state /\ f \in Response /\ f.pending.lines \in Seq(Tokens)
  BY <1>4, ResponseParts DEF PendingOK
<1>8. EnsureHeadersOpen(f) = [f EXCEPT !.state = "HeadersOpen"]
  BY <1>1, <1>7 DEF EnsureHeadersOpen, Response
<1>9. /\ lines \in Seq(Tokens) /\ HeaderLines(lines)
      /\ \A c \in Nat : Counted(f.pending.lines, c) => Counted(lines, c + 1)
  <2>1. /\ lines \in Seq(Tokens) /\ HeaderLines(lines)
        /\ \A c \in Nat : Counted(f.pending.lines, c) =>
             Counted(lines, IF t.kind = "header" THEN c + 1 ELSE c)
    BY <1>4, <1>6, <1>7, LineAdded
  <2> QED BY <1>6, <2>1
<1>9a. x = [EnsureHeadersOpen(f) EXCEPT !.pending.lines = lines]
  <2>1. EnsureHeadersOpen(f).pending = f.pending
    BY <1>7, <1>8 DEF Response
  <2> QED BY <1>5, <2>1
<1> HIDE DEF lines
<1>10. /\ x \in Response /\ x.state = "HeadersOpen" /\ x.status = f.status /\ x.type = f.type
       /\ x.asked = f.asked /\ x.wire = f.wire /\ x.pending.lines = lines
  BY <1>7, <1>8, <1>9, <1>9a DEF Response, States
<1>11. Remembers(q, x, 3, "headers", r.asked.headers + 1)
  BY <1>3, <1>5, <1>10, Asks
<1>12. /\ q \in Response /\ q.state = "HeadersOpen" /\ q.status = r.status /\ q.type = r.type
       /\ q.wire = <<>> /\ q.pending.lines = lines
       /\ q.asked.status = r.asked.status /\ q.asked.type = r.asked.type
       /\ q.asked.headers = r.asked.headers + 1 /\ q.asked.body = "none"
       /\ q.asked.rank = Turn(3, r.asked.rank)
  BY <1>2, <1>4, <1>10, <1>11 DEF Remembers, PendingOK
<1>13. ASSUME q.asked.rank # OutOfOrder
       PROVE  q.asked.rank \in 1 .. 3 /\ r.asked.rank # OutOfOrder
  BY <1>3, <1>12, <1>13, TurnOK DEF OutOfOrder
<1>14. r.asked.rank # OutOfOrder => Counted(lines, r.asked.headers + 1)
  BY <1>2, <1>3, <1>4, <1>9
<1>15. Good("esp32", q)
  BY <1>2, <1>9, <1>12, <1>13, <1>14, Esp32HeadGood
<1> QED BY <1>15 DEF q

-----------------------------------------------------------------------------

(* The head that the library sends in front of the first chunk, in its      *)
(* three parts.                                                             *)
StatusAndType(p) == <<Token("status", p.status), Token("type", p.type)>>
EndOfHead == <<Token("end", "head")>>
PendingHead(p) == StatusAndType(p) \o p.lines \o EndOfHead

LEMMA EndWritten ==
  LET t == EndOfHead IN
  t \in Seq(Tokens) /\ Len(t) = 1 /\ OneHead(t) /\ t[1] = Token("end", "head") /\ t[1].kind = "end"
<1> DEFINE x == Token("end", "head")
<1>1. x \in Tokens /\ x.kind = "end"
  BY TokenOK DEF Kinds, Values
<1>2. EndOfHead = <<x>>
  BY DEF EndOfHead
<1> HIDE DEF x
<1>3. <<x>> \in Seq(Tokens) /\ Len(<<x>>) = 1 /\ <<x>>[1] = x
  BY <1>1, One
<1>4. OneHead(<<x>>)
  BY <1>1, <1>3 DEF OneHead
<1> QED BY <1>1, <1>2, <1>3, <1>4 DEF x

LEMMA StatusAndTypeWritten ==
  ASSUME NEW p, p.status \in Values, p.type \in Values
  PROVE  LET t == StatusAndType(p) IN
         /\ t \in Seq(Tokens) /\ Len(t) = 2 /\ NoEnd(t)
         /\ t[1] = Token("status", p.status) /\ t[2] = Token("type", p.type)
         /\ t[1].kind = "status" /\ t[2].kind = "type"
<1> DEFINE x == Token("status", p.status)
<1> DEFINE y == Token("type", p.type)
<1>1. x \in Tokens /\ y \in Tokens /\ x.kind = "status" /\ y.kind = "type"
  BY TokenOK DEF Kinds
<1>2. StatusAndType(p) = <<x, y>>
  BY DEF StatusAndType
<1> HIDE DEF x, y
<1>3. <<x, y>> \in Seq(Tokens) /\ Len(<<x, y>>) = 2 /\ <<x, y>>[1] = x /\ <<x, y>>[2] = y
  BY <1>1, Two
<1>4. NoEnd(<<x, y>>)
  BY <1>1, <1>3 DEF NoEnd
<1> QED BY <1>1, <1>2, <1>3, <1>4 DEF x, y

(* The head h sends the status, the type and the lines of p, and ends.      *)
HeadIs(h, p) ==
  /\ h \in Seq(Tokens) /\ OneHead(h) /\ Len(h) = Len(p.lines) + 3
  /\ h[1] = Token("status", p.status) /\ h[2] = Token("type", p.type)
  /\ h[1].kind = "status" /\ h[2].kind = "type"
  /\ \A i \in 1 .. Len(p.lines) : h[2 + i] = p.lines[i]
  /\ h[Len(p.lines) + 3].kind = "end"

LEMMA PendingHeadOK ==
  ASSUME NEW p, p.status \in Values, p.type \in Values, p.lines \in Seq(Tokens), HeaderLines(p.lines)
  PROVE  HeadIs(PendingHead(p), p)
<1> DEFINE a == StatusAndType(p)
<1> DEFINE b == p.lines
<1> DEFINE e == EndOfHead
<1> DEFINE v == a \o b
<1> DEFINE h == v \o e
<1>1. /\ a \in Seq(Tokens) /\ Len(a) = 2 /\ NoEnd(a)
      /\ a[1] = Token("status", p.status) /\ a[2] = Token("type", p.type)
      /\ a[1].kind = "status" /\ a[2].kind = "type"
  BY StatusAndTypeWritten
<1>2. e \in Seq(Tokens) /\ Len(e) = 1 /\ OneHead(e) /\ e[1].kind = "end"
  BY EndWritten
<1>3. h = PendingHead(p)
  BY DEF PendingHead
<1> HIDE DEF a, e
<1>4. Joins(v, a, b)
  BY <1>1, Joined
<1>5. NoEnd(b)
  BY DEF HeaderLines, NoEnd
<1>6. NoEnd(v)
  BY <1>1, <1>5, NoEndFollows
<1> HIDE DEF v
<1>7. v \in Seq(Tokens)
  BY <1>4 DEF Joins
<1>8. Joins(h, v, e) /\ OneHead(h)
  BY <1>2, <1>6, <1>7, Joined, HeadFollows
<1> HIDE DEF h, b
<1>9. /\ Len(v) = 2 + Len(b) /\ Len(b) \in Nat /\ v[1] = a[1] /\ v[2] = a[2]
      /\ \A i \in 1 .. Len(b) : v[2 + i] = b[i]
  BY <1>1, <1>4 DEF Joins
<1>10. h \in Seq(Tokens) /\ Len(h) = Len(b) + 3 /\ \A i \in 1 .. Len(v) : h[i] = v[i]
  BY <1>2, <1>8, <1>9 DEF Joins
<1>11. h[Len(b) + 3] = e[1]
  <2>1. h[Len(v) + 1] = e[1]
    BY <1>2, <1>8 DEF Joins
  <2> QED BY <1>9, <2>1
<1>12. h[1] = a[1] /\ h[2] = a[2]
  BY <1>9, <1>10
<1>13. \A i \in 1 .. Len(b) : h[2 + i] = b[i]
  <2> TAKE i \in 1 .. Len(b)
  <2>1. 2 + i \in 1 .. Len(v)
    BY <1>9
  <2> QED BY <1>9, <1>10, <2>1
<1> QED BY <1>1, <1>2, <1>3, <1>8, <1>10, <1>11, <1>12, <1>13 DEF HeadIs, b

(* Texts that were overwritten change neither the type nor the number of    *)
(* lines.                                                                   *)
LEMMA FoundOK ==
  ASSUME NEW r \in Response, HeaderLines(r.pending.lines), NEW stale
  PROVE  LET p == Found(r.pending, stale) IN
         /\ p.status \in Values /\ p.type \in Values /\ p.type = r.pending.type
         /\ p.lines \in Seq(Tokens) /\ HeaderLines(p.lines)
         /\ \A c \in Nat : Counted(r.pending.lines, c) => Counted(p.lines, c)
<1> DEFINE p == Found(r.pending, stale)
<1> DEFINE w == r.pending.lines
<1> DEFINE l == LinesFound(w, stale)
<1> DEFINE x == Token("header", "stale")
<1>1. /\ r.pending \in [status : Values, dangling : BOOLEAN, type : Values, lines : Seq(Tokens)]
      /\ w \in Seq(Tokens) /\ Len(w) \in Nat
  BY ResponseParts DEF Response
<1>2. /\ p = [r.pending EXCEPT
                 !.status = IF r.pending.dangling /\ "status" \in stale THEN "stale" ELSE r.pending.status,
                 !.lines = l]
  BY DEF Found
<1>3. x \in Tokens /\ x.kind = "header"
  BY TokenOK DEF Kinds, Values
<1>4. l = IF "header" \in stale
          THEN [i \in 1 .. Len(w) |-> IF w[i].kind = "header" THEN x ELSE w[i]]
          ELSE w
  BY DEF LinesFound
<1> HIDE DEF p, l, x, w
<1>5. l \in Seq(Tokens) /\ Len(l) = Len(w) /\ \A i \in 1 .. Len(w) : l[i].kind = w[i].kind
  <2>1. CASE "header" \in stale
    <3>1. \A i \in 1 .. Len(w) : w[i] \in Tokens
      BY <1>1
    <3>2. l = [i \in 1 .. Len(w) |-> IF w[i].kind = "header" THEN x ELSE w[i]]
      BY <1>4, <2>1
    <3>3. l \in [1 .. Len(w) -> Tokens]
      BY <1>3, <3>1, <3>2
    <3>4. l \in Seq(Tokens) /\ Len(l) = Len(w)
      BY <1>1, <3>3
    <3>5. \A i \in 1 .. Len(w) : l[i].kind = w[i].kind
      BY <1>3, <3>2
    <3> QED BY <3>4, <3>5
  <2>2. CASE "header" \notin stale
    BY <1>1, <1>4, <2>2
  <2> QED BY <2>1, <2>2
<1>6. HeaderLines(l)
  <2>1. HeaderLines(w)
    BY DEF w
  <2> QED BY <1>5, <2>1 DEF HeaderLines
<1>7. Headers(l, Len(l)) = Headers(w, Len(w))
  BY <1>5 DEF Headers
<1>8. \A c \in Nat : Counted(w, c) => Counted(l, c)
  BY <1>7 DEF Counted
<1>9. /\ p.type = r.pending.type /\ p.lines = l
      /\ p.status = IF r.pending.dangling /\ "status" \in stale THEN "stale" ELSE r.pending.status
  BY <1>1, <1>2
<1>10. p.status \in Values /\ p.type \in Values
  BY <1>1, <1>9 DEF Values
<1> QED BY <1>5, <1>6, <1>8, <1>9, <1>10 DEF p, w

(* What a chunk of u puts on the wire of r.                                 *)
ChunkSent(x, r, u) ==
  /\ x \in Response /\ x.state = r.state /\ x.status = r.status /\ x.type = r.type
  /\ x.pending = r.pending /\ x.asked = r.asked /\ x.wire = u /\ OneHead(u)

LEMMA ChunkOK ==
  ASSUME NEW r \in Response, OneHead(r.wire), HeaderLines(r.pending.lines),
         NEW t \in Seq(Tokens), OnlyBody(t), NEW stale
  PROVE  ChunkSent(SendChunk(r, t, stale), r,
                   IF r.wire = <<>> THEN PendingHead(Found(r.pending, stale)) \o t ELSE r.wire \o t)
<1> DEFINE p == Found(r.pending, stale)
<1> DEFINE h == PendingHead(p)
<1> DEFINE g == IF r.wire = <<>> THEN h ELSE <<>>
<1> DEFINE w == r.wire
<1> DEFINE u == IF w = <<>> THEN h \o t ELSE w \o t
<1> DEFINE x == SendChunk(r, t, stale)
<1>1. w \in Seq(Tokens)
  BY ResponseParts
<1>2. HeadIs(h, p)
  BY FoundOK, PendingHeadOK
<1>3. h \in Seq(Tokens) /\ OneHead(h)
  BY <1>2 DEF HeadIs
<1>4. x = [r EXCEPT !.wire = w \o (g \o t)]
  BY DEF SendChunk, Write, PendingHead, StatusAndType, EndOfHead
<1> HIDE DEF h, x, p
<1>5. w \o (g \o t) = u
  <2>1. CASE w = <<>>
    <3>1. h \o t \in Seq(Tokens)
      BY <1>3, ConcatProperties
    <3>2. <<>> \o (h \o t) = h \o t
      BY <3>1, ConcatEmptySeq
    <3> QED BY <2>1, <3>2
  <2>2. CASE w # <<>>
    <3>1. <<>> \o t = t
      BY ConcatEmptySeq
    <3> QED BY <2>2, <3>1
  <2> QED BY <2>1, <2>2
<1>6. u \in Seq(Tokens) /\ OneHead(u)
  BY <1>1, <1>3, BodyFollows, ConcatProperties
<1> HIDE DEF u
<1>7. x = [state |-> r.state, status |-> r.status, type |-> r.type, wire |-> u,
           pending |-> r.pending, asked |-> r.asked]
  BY <1>4, <1>5 DEF Response
<1>8. x \in Response
  BY <1>6, <1>7 DEF Response
<1>9. ChunkSent(x, r, u)
  BY <1>6, <1>7, <1>8 DEF ChunkSent
<1> QED BY <1>9 DEF u, x, h, p

(* set_body() on the ESP32.                                                 *)
LEMMA Esp32BodyGood ==
  ASSUME NEW r, Good("esp32", r), ~BodyRefused(r), NEW body \in {"empty", "text"}, NEW stale
  PROVE  Good("esp32", SetBody("esp32", r, body, stale))
<1>1. r \in Response /\ Written("esp32", r) /\ OneHead(r.wire) /\ HeaderLines(r.pending.lines)
  BY DEF Good, Written
<1>2. /\ r.status \in Values /\ r.type \in Values /\ r.wire \in Seq(Tokens)
      /\ r.asked.rank \in 0 .. 6
  BY <1>1, ResponseParts
<1> DEFINE s == SetStatusAndCors(r, r.status)
<1> DEFINE f == IF r.state = "Start" THEN SetPendingType(s) ELSE r
<1> DEFINE o == [f EXCEPT !.state = "BodyStreaming"]
<1> DEFINE x == Esp32Body(r, body, stale)
<1> DEFINE q == SetBody("esp32", r, body, stale)
<1>3. x = (IF body = "empty" THEN o ELSE SendChunk(o, Bytes(body), stale)) /\ q = Ask(x, 4, "body", body)
  BY DEF Esp32Body, SetBody
<1>4. /\ PendingOK(s, r, s.pending.lines) /\ HeaderLines(s.pending.lines)
  BY <1>1, <1>2, CorsSet DEF PendingOK
<1>5. PendingOK(f, r, f.pending.lines) /\ HeaderLines(f.pending.lines)
  <2>1. CASE r.state = "Start"
    <3> HIDE DEF s
    <3>1. f = [s EXCEPT !.pending.type = s.type]
      BY <2>1 DEF SetPendingType
    <3>2. s \in Response /\ s.type \in Values
      BY <1>4, ResponseParts DEF PendingOK
    <3> HIDE DEF f
    <3>3. /\ f = [state |-> s.state, status |-> s.status, type |-> s.type, wire |-> s.wire,
                  pending |-> f.pending, asked |-> s.asked]
          /\ f.pending = [status |-> s.pending.status, dangling |-> s.pending.dangling,
                          type |-> s.type, lines |-> s.pending.lines]
      BY <3>1, <3>2 DEF Response
    <3>4. f \in Response
      BY <3>2, <3>3 DEF Response
    <3> QED BY <1>4, <3>3, <3>4 DEF PendingOK
  <2>2. CASE r.state # "Start"
    BY <1>1, <2>2 DEF PendingOK
  <2> QED BY <2>1, <2>2
<1> HIDE DEF s, f
<1>6. /\ o \in Response /\ o.state = "BodyStreaming" /\ o.status = r.status /\ o.type = r.type
      /\ o.wire = r.wire /\ o.asked = r.asked /\ o.pending = f.pending
  BY <1>5 DEF PendingOK, Response, States
<1> HIDE DEF o, x, q
<1> DEFINE u == IF body = "empty" THEN r.wire
                ELSE IF o.wire = <<>> THEN PendingHead(Found(o.pending, stale)) \o Bytes(body) ELSE o.wire \o Bytes(body)
<1>7. ChunkSent(x, o, u)
  <2>1. CASE body = "empty"
    BY <1>1, <1>3, <1>6, <2>1 DEF ChunkSent
  <2>2. CASE body # "empty"
    <3>1. Bytes(body) \in Seq(Tokens) /\ OnlyBody(Bytes(body))
      BY BytesWritten
    <3>2. OneHead(o.wire) /\ HeaderLines(o.pending.lines)
      BY <1>1, <1>5, <1>6
    <3> QED BY <1>3, <1>6, <2>2, <3>1, <3>2, ChunkOK
  <2> QED BY <2>1, <2>2
<1> HIDE DEF u
<1>8. x \in Response /\ x.asked = r.asked /\ x.state = "BodyStreaming"
      /\ x.wire = u /\ OneHead(u) /\ x.pending = f.pending
  BY <1>6, <1>7 DEF ChunkSent
<1>9. Remembers(q, x, 4, "body", body)
  BY <1>3, <1>8, Asks
<1>10. /\ q \in Response /\ q.state = "BodyStreaming"
       /\ q.pending = f.pending /\ q.wire = u
       /\ q.asked.body = body /\ q.asked.rank = Turn(4, r.asked.rank)
  BY <1>8, <1>9 DEF Remembers
<1>11. ASSUME q.asked.rank # OutOfOrder
       PROVE  InOrder(q) /\ Esp32Sent(q)
  <2>1. q.asked.rank = 4
    BY <1>2, <1>10, <1>11, TurnOK
  <2>2. InOrder(q)
    BY <1>10, <2>1 DEF InOrder
  <2> QED BY <2>1, <2>2 DEF Esp32Sent
<1>12. Ordered("esp32", q)
  BY <1>11 DEF Ordered
<1>13. Good("esp32", q)
  BY <1>5, <1>8, <1>10, <1>12, LateGood
<1> QED BY <1>13 DEF q

(* The head that was sent has as many header lines as the library was told  *)
(* of.                                                                      *)
LEMMA HeadersMoved ==
  ASSUME NEW w, NEW u, NEW l \in Nat, NEW c, Len(w) = l, Counted(w, c),
         u[1].kind # "header", u[2].kind # "header",
         \A i \in 1 .. l : u[2 + i] = w[i]
  PROVE  Cardinality(Headers(u, l + 2)) = c
<1> DEFINE S == Headers(w, l)
<1> DEFINE T == Headers(u, l + 2)
<1> DEFINE f == [i \in S |-> i + 2]
<1>1. \A i \in S : f[i] \in T
  <2> TAKE i \in S
  <2>1. i \in 1 .. l /\ w[i].kind = "header"
    BY DEF Headers
  <2>2. i + 2 \in 1 .. l + 2 /\ u[i + 2] = w[i] /\ f[i] = i + 2
    BY <2>1
  <2> QED BY <2>1, <2>2 DEF Headers
<1>2. \A i, j \in S : f[i] = f[j] => i = j
  BY DEF Headers
<1>3. ASSUME NEW k \in T PROVE \E i \in S : f[i] = k
  <2>1. k \in 1 .. l + 2 /\ u[k].kind = "header"
    BY DEF Headers
  <2>2. k # 1 /\ k # 2
    BY <2>1
  <2> DEFINE i == k - 2
  <2>3. i \in 1 .. l /\ k = 2 + i /\ k = i + 2
    BY <2>1, <2>2
  <2> HIDE DEF i
  <2>4. w[i].kind = "header"
    BY <2>1, <2>3
  <2>5. i \in S
    BY <2>3, <2>4 DEF Headers
  <2> QED BY <2>3, <2>5
<1>4. f \in [S -> T]
  BY <1>1
<1> HIDE DEF S, T, f
<1>5. f \in Bijection(S, T)
  BY <1>2, <1>3, <1>4 DEF Bijection, Injection, Surjection, IsInjective
<1>6. ExistsBijection(S, T)
  BY <1>5 DEF ExistsBijection
<1>7. IsFiniteSet(S) /\ Cardinality(S) = c
  BY DEF Counted, S
<1>8. Cardinality(T) = c
  BY <1>6, <1>7, FS_Bijection
<1> QED BY <1>8 DEF T

(* The first chunk of a reply without a body is its head, ...               *)
LEMMA EmptyReplySent ==
  ASSUME NEW p, HeadIs(PendingHead(p), p), p.lines \in Seq(Tokens), HeaderLines(p.lines),
         NEW a \in Asked, p.type = a.type, Counted(p.lines, a.headers)
  PROVE  \E n \in Nat : EmptySent((PendingHead(p) \o LastChunk) \o LastChunk, n, a)
<1> DEFINE h == PendingHead(p)
<1> DEFINE v == h \o LastChunk
<1> DEFINE u == v \o LastChunk
<1> DEFINE l == Len(p.lines)
<1> DEFINE n == l + 2
<1>1. /\ LastChunk \in Seq(Tokens) /\ Len(LastChunk) = 1 /\ LastChunk[1].kind = "last"
  <2>1. Token("last", "chunk").kind = "last"
    BY TokenOK DEF Kinds, Values
  <2> QED BY <2>1, LastWritten
<1>2. /\ h \in Seq(Tokens) /\ Len(h) = l + 3
      /\ h[2] = Token("type", a.type)
      /\ h[1].kind = "status" /\ h[2].kind = "type"
      /\ \A i \in 1 .. l : h[2 + i] = p.lines[i]
      /\ h[l + 3].kind = "end"
  BY DEF HeadIs
<1>3. l \in Nat
  BY LenProperties
<1> HIDE DEF h
<1>4. Joins(v, h, LastChunk)
  BY <1>1, <1>2, Joined
<1> HIDE DEF v
<1>5. v \in Seq(Tokens) /\ Len(v) = l + 4 /\ v[l + 4].kind = "last"
      /\ \A i \in 1 .. l + 3 : v[i] = h[i]
  <2>1. v \in Seq(Tokens) /\ Len(v) = Len(h) + 1 /\ v[Len(h) + 1] = LastChunk[1]
        /\ \A i \in 1 .. Len(h) : v[i] = h[i]
    BY <1>1, <1>4 DEF Joins
  <2> HIDE DEF l
  <2>2. Len(h) + 1 = l + 4
    BY <1>2, <1>3
  <2> QED BY <1>1, <1>2, <2>1, <2>2
<1>6. Joins(u, v, LastChunk)
  BY <1>1, <1>5, Joined
<1> HIDE DEF u
<1>7. Len(u) = l + 5 /\ u[l + 5].kind = "last" /\ \A i \in 1 .. l + 4 : u[i] = v[i]
  <2>1. Len(u) = Len(v) + 1 /\ u[Len(v) + 1] = LastChunk[1]
        /\ \A i \in 1 .. Len(v) : u[i] = v[i]
    BY <1>1, <1>6 DEF Joins
  <2> HIDE DEF l
  <2>2. Len(v) + 1 = l + 5
    BY <1>3, <1>5
  <2> QED BY <1>1, <1>5, <2>1, <2>2
<1> HIDE DEF l
<1>8. \A i \in 1 .. l + 3 : u[i] = h[i]
  <2> TAKE i \in 1 .. l + 3
  <2>1. i \in 1 .. l + 4
    BY <1>3
  <2> QED BY <1>5, <1>7, <2>1
<1>9. /\ 1 \in 1 .. l + 3 /\ 2 \in 1 .. l + 3 /\ l + 3 \in 1 .. l + 3
      /\ \A i \in 1 .. l : 2 + i \in 1 .. l + 3
      /\ l + 4 \in 1 .. l + 4
  BY <1>3
<1>10. /\ u[1] = h[1] /\ u[2] = h[2] /\ u[l + 3].kind = "end" /\ u[l + 4].kind = "last"
       /\ \A i \in 1 .. l : u[2 + i] = p.lines[i]
  BY <1>2, <1>5, <1>7, <1>8, <1>9
<1>11. Cardinality(Headers(u, l + 2)) = a.headers
  <2>1. Len(p.lines) = l
    BY DEF l
  <2>2. u[1].kind # "header" /\ u[2].kind # "header"
    BY <1>2, <1>10
  <2> QED BY <1>3, <1>10, <2>1, <2>2, HeadersMoved
<1>12. \A i \in 3 .. n : u[i].kind \in {"cors", "header"}
  <2> TAKE i \in 3 .. n
  <2> DEFINE k == i - 2
  <2>1. k \in 1 .. l /\ i = 2 + k
    BY <1>3
  <2> HIDE DEF k
  <2>2. u[i] = p.lines[k]
    BY <1>10, <2>1
  <2> QED BY <2>1, <2>2 DEF HeaderLines, l
<1>13. n \in Nat /\ n \in 2 .. Len(u) /\ Len(u) = n + 3
       /\ n + 1 = l + 3 /\ n + 2 = l + 4 /\ n + 3 = l + 5
  BY <1>3, <1>7
<1>14. EmptySent(u, n, a)
  <2>1. u[n + 1].kind = "end" /\ u[n + 2].kind = "last" /\ u[n + 3].kind = "last"
    BY <1>7, <1>10, <1>13
  <2>2. u[1].kind = "status" /\ u[2] = Token("type", a.type)
    BY <1>2, <1>10
  <2> QED BY <1>11, <1>12, <1>13, <2>1, <2>2 DEF EmptySent
<1> QED BY <1>13, <1>14 DEF u, v, h

(* ... and the second one, behind it, changes nothing a client reads.       *)
LEMMA EmptyChunks ==
  ASSUME NEW r \in Response, r.wire = <<>>, HeaderLines(r.pending.lines),
         NEW o, o = SetPendingType(SetStatusAndCors(r, r.status))
  PROVE  /\ o \in Response /\ o.state = r.state /\ o.asked = r.asked /\ o.wire = <<>>
         /\ HeaderLines(o.pending.lines)
         /\ o.pending.type = r.type
         /\ \A c \in Nat : Counted(r.pending.lines, c) => Counted(o.pending.lines, c)
<1> DEFINE s == SetStatusAndCors(r, r.status)
<1>1. r.status \in Values /\ r.type \in Values
  BY ResponseParts
<1>2. /\ PendingOK(s, r, s.pending.lines)
      /\ HeaderLines(s.pending.lines)
      /\ \A c \in Nat : Counted(r.pending.lines, c) => Counted(s.pending.lines, c)
  BY <1>1, CorsSet DEF PendingOK
<1>3. o = [s EXCEPT !.pending.type = s.type]
  BY DEF SetPendingType
<1> HIDE DEF s
<1>4. s \in Response /\ s.type = r.type /\ s.state = r.state /\ s.asked = r.asked /\ s.wire = r.wire
  BY <1>2 DEF PendingOK
<1>5. /\ o = [state |-> s.state, status |-> s.status, type |-> s.type, wire |-> s.wire,
              pending |-> o.pending, asked |-> s.asked]
      /\ o.pending = [status |-> s.pending.status, dangling |-> s.pending.dangling,
                          type |-> s.type, lines |-> s.pending.lines]
  BY <1>3, <1>4 DEF Response
<1>6. o \in Response
  BY <1>1, <1>4, <1>5 DEF Response
<1> QED BY <1>2, <1>4, <1>5, <1>6

(* finish() on the ESP32.                                                   *)
LEMMA Esp32FinishGood ==
  ASSUME NEW r, Good("esp32", r), NEW stale
  PROVE  Good("esp32", Finish("esp32", r, stale)) /\ Finish("esp32", r, stale).state = "Done"
<1>0. CASE r.state = "Done"
  BY <1>0 DEF Finish
<1> SUFFICES ASSUME r.state # "Done"
             PROVE  Good("esp32", Finish("esp32", r, stale)) /\ Finish("esp32", r, stale).state = "Done"
  BY <1>0
<1>1. r \in Response /\ Written("esp32", r) /\ OneHead(r.wire) /\ HeaderLines(r.pending.lines)
  BY DEF Good, Written
<1>2. /\ r.asked.rank \in 0 .. 6 /\ r.asked \in Asked /\ r.asked.headers \in Nat
      /\ r.state \in {"Start", "HeadersOpen", "BodyStreaming"}
  BY <1>1, ResponseParts DEF States
<1>3. LastChunk \in Seq(Tokens) /\ OnlyBody(LastChunk)
  BY LastWritten
<1> DEFINE o == SetPendingType(SetStatusAndCors(r, r.status))
<1> DEFINE e == SendChunk(o, LastChunk, stale)
<1> DEFINE f == IF r.state \in {"Start", "HeadersOpen"} THEN e ELSE r
<1> DEFINE g == SendChunk(f, LastChunk, stale)
<1> DEFINE x == Esp32Finish(r, stale)
<1> DEFINE q == Finish("esp32", r, stale)
<1>4. x = [g EXCEPT !.state = "Done"] /\ q = InTurn(x, 5)
  BY DEF Esp32Finish, Finish
<1>5. ASSUME r.state \in {"Start", "HeadersOpen"}
      PROVE  /\ o \in Response /\ o.state = r.state /\ o.asked = r.asked /\ o.wire = <<>>
             /\ HeaderLines(o.pending.lines)
             /\ o.pending.type = r.type
             /\ \A c \in Nat : Counted(r.pending.lines, c) => Counted(o.pending.lines, c)
  <2>1. r.wire = <<>>
    BY <1>5, Esp32State
  <2> QED BY <1>1, <2>1, EmptyChunks
<1> HIDE DEF o
<1>6. ASSUME r.state \in {"Start", "HeadersOpen"}
      PROVE  ChunkSent(e, o, PendingHead(Found(o.pending, stale)) \o LastChunk)
  <2>1. OneHead(o.wire) /\ o.wire = <<>>
    BY <1>5, <1>6, NothingWritten
  <2>2. ChunkSent(e, o, IF o.wire = <<>> THEN PendingHead(Found(o.pending, stale)) \o LastChunk
                       ELSE o.wire \o LastChunk)
    BY <1>3, <1>5, <1>6, <2>1, ChunkOK
  <2> QED BY <2>1, <2>2
<1> HIDE DEF e
<1>7. /\ f \in Response /\ f.asked = r.asked /\ OneHead(f.wire) /\ HeaderLines(f.pending.lines)
  <2>1. CASE r.state \in {"Start", "HeadersOpen"}
    BY <1>5, <1>6, <2>1 DEF ChunkSent
  <2>2. CASE r.state \notin {"Start", "HeadersOpen"}
    BY <1>1, <2>2
  <2> QED BY <2>1, <2>2
<1> HIDE DEF f
<1> DEFINE u == IF f.wire = <<>> THEN PendingHead(Found(f.pending, stale)) \o LastChunk
                ELSE f.wire \o LastChunk
<1>8. ChunkSent(g, f, u)
  BY <1>3, <1>7, ChunkOK
<1> HIDE DEF g, u, x, q
<1>9. /\ g \in Response /\ g.asked = r.asked /\ g.wire = u /\ OneHead(u) /\ g.pending = f.pending
  BY <1>7, <1>8 DEF ChunkSent
<1>10. /\ x \in Response /\ x.state = "Done" /\ x.asked = r.asked /\ x.wire = u /\ x.pending = f.pending
  BY <1>4, <1>9 DEF Response, States
<1>11. Remembers(q, x, 5, "", "")
  BY <1>4, <1>10, Finishes
<1>12. /\ q \in Response /\ q.state = "Done" /\ q.pending = f.pending /\ q.wire = u
       /\ q.asked.status = r.asked.status /\ q.asked.type = r.asked.type
       /\ q.asked.headers = r.asked.headers /\ q.asked.body = r.asked.body
       /\ q.asked.rank = Turn(5, r.asked.rank)
  BY <1>10, <1>11 DEF Remembers
<1>13. ASSUME q.asked.rank # OutOfOrder
       PROVE  InOrder(q) /\ Esp32Sent(q)
  <2>1. q.asked.rank = 5 /\ r.asked.rank # OutOfOrder
    BY <1>2, <1>12, <1>13, TurnOK DEF OutOfOrder
  <2>2. InOrder(q)
    BY <1>12, <2>1 DEF InOrder
  <2>3. ASSUME q.asked.body = "none" PROVE \E n \in Nat : EmptySent(u, n, q.asked)
    <3>1. InOrder(r) /\ r.asked.body = "none"
      BY <1>12, <2>1, <2>3 DEF Good, Ordered
    <3>2. r.state \in {"Start", "HeadersOpen"}
      BY <1>2, <2>1, <3>1 DEF InOrder
    <3>3. /\ r.status = r.asked.status /\ r.type = r.asked.type
          /\ Counted(r.pending.lines, r.asked.headers)
      BY <2>1, <3>2, Esp32State
    <3> DEFINE p == Found(o.pending, stale)
    <3>4. /\ o.pending.type = q.asked.type /\ o \in Response
          /\ HeaderLines(o.pending.lines) /\ Counted(o.pending.lines, q.asked.headers)
          /\ q.asked \in Asked /\ q.asked.headers \in Nat
      BY <1>2, <1>5, <1>12, <3>2, <3>3, ResponseParts
    <3>5. /\ p.status \in Values /\ p.type \in Values /\ p.lines \in Seq(Tokens)
          /\ p.type = q.asked.type /\ HeaderLines(p.lines) /\ Counted(p.lines, q.asked.headers)
      BY <3>4, FoundOK
    <3> HIDE DEF p
    <3>6. HeadIs(PendingHead(p), p)
      BY <3>4, <3>5, PendingHeadOK
    <3>7. \E n \in Nat : EmptySent((PendingHead(p) \o LastChunk) \o LastChunk, n, q.asked)
      BY <3>4, <3>5, <3>6, EmptyReplySent
    <3>8. f.wire = PendingHead(p) \o LastChunk
      BY <1>6, <3>2 DEF ChunkSent, f, p
    <3>9. f.wire # <<>>
      <4>1. PendingHead(p) \in Seq(Tokens)
        BY <3>6 DEF HeadIs
      <4>2. LastChunk # <<>>
        BY LastWritten
      <4> QED BY <1>3, <3>8, <4>1, <4>2, ConcatEqualIffEmpty
    <3>10. u = (PendingHead(p) \o LastChunk) \o LastChunk
      BY <3>8, <3>9 DEF u
    <3> QED BY <3>7, <3>10
  <2> QED BY <1>12, <2>1, <2>2, <2>3 DEF Esp32Sent
<1>14. Ordered("esp32", q)
  BY <1>13 DEF Ordered
<1>15. Good("esp32", q)
  BY <1>7, <1>9, <1>12, <1>14, LateGood
<1> QED BY <1>12, <1>15 DEF q

-----------------------------------------------------------------------------
(* What a client reads from a good response that is done.                   *)

(* A body that was sent behind the head asked for is read as asked, ...     *)
LEMMA BodyArrives ==
  ASSUME NEW r \in Response, OneHead(r.wire), NEW n \in Nat, BodySent(r.wire, n, r.asked),
         r.asked.body # "none"
  PROVE  ReplyAsAsked(r)
<1> DEFINE w == r.wire
<1> DEFINE a == r.asked
<1>1. /\ n \in 2 .. Len(w) /\ w[1] = Token("status", a.status)
      /\ \A i \in 2 .. n : w[i].kind \in {"cors", "header"}
      /\ Cardinality(Headers(w, n)) = a.headers
      /\ \A i \in Headers(w, n) : w[i].value = "line"
      /\ n + 3 <= Len(w)
      /\ w[n + 1] = Token("type", a.type) /\ w[n + 2] = Token("length", a.body)
      /\ w[n + 3] = Token("end", "head")
      /\ IF a.body = "empty" THEN Len(w) = n + 3
         ELSE Len(w) = n + 4 /\ w[n + 4] = Token("body", a.body)
  BY DEF BodySent, Opened
<1>2. /\ w \in Seq(Tokens) /\ a.body \in {"empty", "text"} /\ Len(w) \in Nat
      /\ a.status \in Values /\ a.type \in Values /\ a.body \in Values
  BY ResponseParts DEF Values
<1>2a. DOMAIN w = 1 .. Len(w)
  BY <1>2, LenProperties
<1>3. /\ w[1].kind = "status" /\ w[1].value = a.status
      /\ w[n + 1].kind = "type" /\ w[n + 1].value = a.type
      /\ w[n + 2].kind = "length" /\ w[n + 2].value = a.body
      /\ w[n + 3].kind = "end"
      /\ a.body # "empty" => w[n + 4].kind = "body" /\ w[n + 4].value = a.body
  <2>1. \A k \in Kinds, v \in Values : Token(k, v).kind = k /\ Token(k, v).value = v
    BY TokenOK
  <2>2. "head" \in Values /\ {"status", "type", "length", "end", "body"} \subseteq Kinds
    BY DEF Values, Kinds
  <2> HIDE DEF w, a
  <2> QED BY <1>1, <1>2, <2>1, <2>2
<1>4. HeadLength(r) = n + 3
  <2>1. n + 3 \in 1 .. Len(w)
    BY <1>1, <1>2
  <2> QED BY <1>2, <1>3, <2>1, HeadEnds
<1> HIDE DEF w, a
<1>5. \A i \in 1 .. n + 2 : i = 1 \/ i \in 2 .. n \/ i = n + 1 \/ i = n + 2
  OBVIOUS
<1>5a. \A kind : InHead(r, kind) = {i \in 1 .. n + 2 : w[i].kind = kind}
  <2>1. HeadLength(r) - 1 = n + 2
    BY <1>4
  <2> QED BY <2>1 DEF InHead, w
<1>6. InHead(r, "status") = {1}
  <2>1. \A i \in 1 .. n + 2 : w[i].kind = "status" => i = 1
    BY <1>1, <1>3, <1>5
  <2>2. 1 \in 1 .. n + 2
    OBVIOUS
  <2> QED BY <1>3, <1>5a, <2>1, <2>2
<1>7. InHead(r, "type") = {n + 1}
  <2>1. \A i \in 1 .. n + 2 : w[i].kind = "type" => i = n + 1
    BY <1>1, <1>3, <1>5
  <2>2. n + 1 \in 1 .. n + 2
    OBVIOUS
  <2> QED BY <1>3, <1>5a, <2>1, <2>2
<1>8. \A i \in InHead(r, "length") : i = n + 2
  <2>1. \A i \in 1 .. n + 2 : w[i].kind = "length" => i = n + 2
    BY <1>1, <1>3, <1>5
  <2> QED BY <1>5a, <2>1
<1>9. InHead(r, "header") = Headers(w, n)
  <2>1. \A i \in 1 .. n + 2 : w[i].kind = "header" => i \in 1 .. n
    BY <1>1, <1>3, <1>5
  <2>2. \A i \in 1 .. n : i \in 1 .. n + 2
    OBVIOUS
  <2> QED BY <1>5a, <2>1, <2>2 DEF Headers
<1>10. IF a.body = "empty" THEN InContent(r, "body") = {} ELSE InContent(r, "body") = {n + 4}
  <2>1. InContent(r, "body") = {i \in n + 4 .. Len(w) : w[i].kind = "body"}
    <3>1. HeadLength(r) + 1 = n + 4
      BY <1>4
    <3> QED BY <3>1 DEF InContent, w
  <2>2. CASE a.body = "empty"
    BY <1>1, <2>1, <2>2
  <2>3. CASE a.body # "empty"
    BY <1>1, <1>3, <2>1, <2>3
  <2> QED BY <2>2, <2>3
<1>11. HeadAsAsked(r)
  <2>1. HeadLength(r) > 0
    BY <1>4
  <2>2. n + 1 \in DOMAIN w
    BY <1>1, <1>2, <1>2a
  <2> QED BY <1>1, <1>3, <1>6, <1>7, <1>9, <2>1, <2>2 DEF HeadAsAsked, HeadComplete, w, a
<1>12. ContentAsAsked(r)
  <2>1. a.body # "none"
    BY DEF a
  <2>2. a.body # "empty" => n + 4 \in DOMAIN w
    BY <1>1, <1>2, <1>2a
  <2>3. \A i \in InHead(r, "length") : w[i].value = a.body
    BY <1>3, <1>8
  <2> QED BY <1>3, <1>10, <2>1, <2>2, <2>3 DEF ContentAsAsked, w, a
<1> QED BY <1>11, <1>12 DEF ReplyAsAsked

(* ... and a reply without one is complete.                                 *)
LEMMA EmptyArrives ==
  ASSUME NEW r \in Response, OneHead(r.wire), NEW n \in Nat, EmptySent(r.wire, n, r.asked),
         r.asked.body = "none"
  PROVE  HeadComplete(r) /\ ContentAsAsked(r) /\ r.wire[Len(r.wire)].kind = "last"
<1> DEFINE w == r.wire
<1> DEFINE a == r.asked
<1>1. /\ n \in 2 .. Len(w) /\ Len(w) = n + 3
      /\ w[1].kind = "status" /\ w[2] = Token("type", a.type)
      /\ \A i \in 3 .. n : w[i].kind \in {"cors", "header"}
      /\ Cardinality(Headers(w, n)) = a.headers
      /\ w[n + 1].kind = "end" /\ w[n + 2].kind = "last" /\ w[n + 3].kind = "last"
  BY DEF EmptySent
<1>2. /\ w \in Seq(Tokens) /\ Len(w) \in Nat /\ a.status \in Values /\ a.type \in Values
      /\ DOMAIN w = 1 .. Len(w)
  BY ResponseParts, LenProperties
<1>3. /\ w[1].kind = "status"
      /\ w[2].kind = "type" /\ w[2].value = a.type
  <2>1. \A k \in Kinds, v \in Values : Token(k, v).kind = k /\ Token(k, v).value = v
    BY TokenOK
  <2>2. "type" \in Kinds
    BY DEF Kinds
  <2> HIDE DEF w, a
  <2> QED BY <1>1, <1>2, <2>1, <2>2
<1>4. HeadLength(r) = n + 1
  <2>1. n + 1 \in 1 .. Len(w)
    BY <1>1, <1>2
  <2> QED BY <1>1, <1>2, <2>1, HeadEnds
<1> HIDE DEF w, a
<1>5. \A i \in 1 .. n : i = 1 \/ i = 2 \/ i \in 3 .. n
  OBVIOUS
<1>5a. \A kind : InHead(r, kind) = {i \in 1 .. n : w[i].kind = kind}
  <2>1. HeadLength(r) - 1 = n
    BY <1>4
  <2> QED BY <2>1 DEF InHead, w
<1>6. InHead(r, "status") = {1}
  <2>1. \A i \in 1 .. n : w[i].kind = "status" => i = 1
    BY <1>1, <1>3, <1>5
  <2>2. 1 \in 1 .. n
    BY <1>1
  <2> QED BY <1>3, <1>5a, <2>1, <2>2
<1>7. InHead(r, "type") = {2}
  <2>1. \A i \in 1 .. n : w[i].kind = "type" => i = 2
    BY <1>1, <1>3, <1>5
  <2>2. 2 \in 1 .. n
    BY <1>1
  <2> QED BY <1>3, <1>5a, <2>1, <2>2
<1>8. InHead(r, "length") = {}
  <2>1. \A i \in 1 .. n : w[i].kind # "length"
    BY <1>1, <1>3, <1>5
  <2> QED BY <1>5a, <2>1
<1>9. InHead(r, "header") = Headers(w, n)
  BY <1>5a DEF Headers
<1>10. InContent(r, "body") = {}
  <2>1. InContent(r, "body") = {i \in n + 2 .. n + 3 : w[i].kind = "body"}
    <3>1. HeadLength(r) + 1 = n + 2
      BY <1>4
    <3> QED BY <1>1, <3>1 DEF InContent, w
  <2>2. \A i \in n + 2 .. n + 3 : i = n + 2 \/ i = n + 3
    OBVIOUS
  <2> QED BY <1>1, <2>1, <2>2
<1>11. HeadComplete(r)
  <2>1. HeadLength(r) > 0
    BY <1>4
  <2>2. 2 \in DOMAIN w
    BY <1>1, <1>2
  <2> QED BY <1>1, <1>3, <1>6, <1>7, <1>9, <2>1, <2>2 DEF HeadComplete, w, a
<1>12. ContentAsAsked(r)
  BY <1>8, <1>10 DEF ContentAsAsked, a
<1>13. w[Len(w)].kind = "last"
  BY <1>1
<1> QED BY <1>11, <1>12, <1>13 DEF w

-----------------------------------------------------------------------------
(* The invariant of the server.                                             *)

(* The engine stays as long as the server is not stopped, and the server    *)
(* is not stopped while it serves a request.                                *)
Serving ==
  /\ server \in {"listening", "running", "stopping"} => engine
  /\ \A c \in Clients : InService(c) => server # "stopped"
  /\ \A c \in Clients : phase[c] = "handling" => engine

(* Every response is good.                                                  *)
AllGood ==
  /\ resp \in [Clients -> Response]
  /\ \A c \in Clients : Good(platform, resp[c])
  /\ \A c \in Clients : phase[c] = "answered" => resp[c].state = "Done"

(* The inductive invariant.                                                 *)
WebInv == TypeOK /\ Serving /\ AllGood

(* A response begins good.                                                  *)
LEMMA FreshGood ==
  ASSUME NEW pl \in Platform
  PROVE  Good(pl, FreshResponse)
<1> DEFINE f == FreshResponse
<1>1. f \in Response
  <2>1. <<>> \in Seq(Tokens)
    BY NothingWritten
  <2>2. NothingAsked \in Asked
    BY DEF NothingAsked, Asked, Values
  <2> QED BY <2>1, <2>2 DEF FreshResponse, Response, States, Values
<1>2. /\ f.state = "Start" /\ f.wire = <<>> /\ f.pending.lines = <<>>
      /\ f.asked.rank = 0 /\ f.asked.headers = 0 /\ f.asked.body = "none"
      /\ f.asked.status = f.status /\ f.asked.type = f.type
  BY DEF FreshResponse, NothingAsked
<1> HIDE DEF f
<1>3. Written(pl, f)
  BY <1>1, <1>2, NothingWritten, NoneCounted DEF Written, Fresh, Unsent
<1>4. InOrder(f)
  BY <1>2 DEF InOrder
<1>5. DesktopSent(f)
  BY <1>2 DEF DesktopSent
<1>6. Esp32Sent(f)
  BY <1>2, NoneCounted DEF Esp32Sent, Counted
<1>7. Good(pl, f)
  BY <1>3, <1>4, <1>5, <1>6 DEF Good, Ordered
<1> QED BY <1>7 DEF f

(* A good response has its types.                                           *)
LEMMA GoodTyped ==
  ASSUME NEW pl, NEW r, Good(pl, r)
  PROVE  r \in Response
BY DEF Good, Written

LEMMA InitWeb == Init => WebInv
<1> SUFFICES ASSUME Init PROVE WebInv
  OBVIOUS
<1>1. platform \in Platform
  BY WebServerAssumption DEF Init, Platform
<1>2. TypeOK
  <2>1. runs \in 0 .. MaxRuns /\ requests \in [Clients -> 0 .. MaxRequests]
    BY WebServerAssumption DEF Init
  <2>2. phase \in [Clients -> {"idle", "arrived", "handling", "answered", "fallback"}]
    BY DEF Init
  <2> QED BY <2>1, <2>2 DEF Init, TypeOK
<1>3. Serving
  BY DEF Init, Serving, InService
<1>4. AllGood
  BY <1>1, FreshGood, GoodTyped DEF Init, AllGood
<1> QED BY <1>2, <1>3, <1>4 DEF WebInv

(* The calls of one handler.                                                *)
LEMMA OperateGood ==
  ASSUME WebInv, NEW c \in Clients, NEW refused \in BOOLEAN, NEW r, Operate(c, refused, r),
         refused \/ Good(platform, r)
  PROVE  AllGood'
<1>1. /\ resp \in [Clients -> Response] /\ \A d \in Clients : Good(platform, resp[d])
      /\ \A d \in Clients : phase[d] = "answered" => resp[d].state = "Done"
  BY DEF WebInv, AllGood
<1>2. /\ platform' = platform /\ phase' = phase /\ phase[c] = "handling"
      /\ resp' = resp \/ (~refused /\ resp' = [resp EXCEPT ![c] = r])
  BY DEF Operate
<1>3. CASE resp' = resp
  BY <1>1, <1>2, <1>3 DEF AllGood
<1>4. CASE ~refused /\ resp' = [resp EXCEPT ![c] = r]
  <2>1. Good(platform, r) /\ r \in Response
    BY <1>4, GoodTyped
  <2> QED BY <1>1, <1>2, <1>4, <2>1 DEF AllGood
<1> QED BY <1>2, <1>3, <1>4

LEMMA OperateServes ==
  ASSUME WebInv, NEW c \in Clients, NEW refused, NEW r, Operate(c, refused, r)
  PROVE  TypeOK' /\ Serving'
<1>1. server' = "fatal" \/ server' = server
  BY DEF Operate
<1>2. platform' = platform /\ handler' = handler /\ engine' = engine /\ runs' = runs
      /\ phase' = phase /\ requests' = requests
  BY DEF Operate
<1> QED BY <1>1, <1>2 DEF WebInv, TypeOK, Serving, InService

LEMMA HandlingStep ==
  ASSUME WebInv, NEW c \in Clients, Handling(c)
  PROVE  WebInv'
<1>0. /\ platform \in Platform /\ Good(platform, resp[c]) /\ resp[c] \in Response
  BY WebServerAssumption DEF WebInv, TypeOK, AllGood, Platform
<1> DEFINE r == resp[c]
<1>1. ASSUME NEW code \in {"200", "404"}, Status(c, code) PROVE WebInv'
  <2>1. code \in Values
    BY DEF Values
  <2>2. HeadersRefused(r) \/ Good(platform, SetStatusCode(platform, r, code))
    BY <1>0, <2>1, DesktopStatusGood, Esp32StatusGood DEF Platform
  <2>3. Operate(c, HeadersRefused(r), SetStatusCode(platform, r, code)) /\ HeadersRefused(r) \in BOOLEAN
    BY <1>1 DEF Status, HeadersRefused
  <2> HIDE DEF r
  <2> QED BY <2>2, <2>3, OperateGood, OperateServes DEF WebInv
<1>2. ASSUME Type(c) PROVE WebInv'
  <2>1. "json" \in Values
    BY DEF Values
  <2>2. HeadersRefused(r) \/ Good(platform, SetContentType(platform, r, "json"))
    BY <1>0, <2>1, DesktopTypeGood, Esp32TypeGood DEF Platform
  <2>3. Operate(c, HeadersRefused(r), SetContentType(platform, r, "json")) /\ HeadersRefused(r) \in BOOLEAN
    BY <1>2 DEF Type, HeadersRefused
  <2> HIDE DEF r
  <2> QED BY <2>2, <2>3, OperateGood, OperateServes DEF WebInv
<1>3. ASSUME Header(c) PROVE WebInv'
  <2>2. HeadersRefused(r) \/ Good(platform, AddHeader(platform, r))
    BY <1>0, DesktopAddGood, Esp32AddGood DEF Platform
  <2>3. Operate(c, HeadersRefused(r), AddHeader(platform, r)) /\ HeadersRefused(r) \in BOOLEAN
    BY <1>3 DEF Header, HeadersRefused
  <2> HIDE DEF r
  <2> QED BY <2>2, <2>3, OperateGood, OperateServes DEF WebInv
<1>4. ASSUME NEW body \in {"empty", "text"}, Body(c, body) PROVE WebInv'
  <2>1. PICK stale \in Overwritten : Operate(c, BodyRefused(r), SetBody(platform, r, body, stale))
    BY <1>4 DEF Body
  <2>2. BodyRefused(r) \/ Good(platform, SetBody(platform, r, body, stale))
    BY <1>0, DesktopBodyGood, Esp32BodyGood DEF Platform
  <2>3. Operate(c, BodyRefused(r), SetBody(platform, r, body, stale)) /\ BodyRefused(r) \in BOOLEAN
    BY <2>1 DEF BodyRefused
  <2> HIDE DEF r
  <2> QED BY <2>2, <2>3, OperateGood, OperateServes DEF WebInv
<1>5. ASSUME NEW stale
      PROVE  Good(platform, Finish(platform, r, stale)) /\ Finish(platform, r, stale).state = "Done"
  BY <1>0, DesktopFinishGood, Esp32FinishGood DEF Platform
<1>6. ASSUME FinishEarly(c) PROVE WebInv'
  <2>3. PICK stale \in Overwritten : Operate(c, FALSE, Finish(platform, r, stale))
    BY <1>6 DEF FinishEarly
  <2> HIDE DEF r
  <2> QED BY <1>5, <2>3, OperateGood, OperateServes DEF WebInv
<1>7. ASSUME Handled(c) PROVE WebInv'
  <2>1. PICK stale \in Overwritten :
        /\ platform' = platform /\ server' = server /\ handler' = handler /\ engine' = engine
        /\ runs' = runs /\ requests' = requests
        /\ phase' = [phase EXCEPT ![c] = "answered"]
        /\ resp' = [resp EXCEPT ![c] = Finish(platform, r, stale)]
    BY <1>7 DEF Handled, serverVars
  <2>2. AllGood'
    <3>1. Finish(platform, r, stale) \in Response
      BY <1>5, GoodTyped
    <3> HIDE DEF r
    <3> QED BY <1>5, <2>1, <3>1 DEF WebInv, TypeOK, AllGood
  <2>3. TypeOK' /\ Serving'
    BY <2>1 DEF WebInv, TypeOK, Serving, InService
  <2> QED BY <2>2, <2>3 DEF WebInv
<1>8. ASSUME NotHandled(c) PROVE WebInv'
  <2>1. /\ platform' = platform /\ server' = server /\ handler' = handler /\ engine' = engine
        /\ runs' = runs /\ requests' = requests /\ resp' = resp
        /\ phase' = [phase EXCEPT ![c] = "fallback"]
    BY <1>8 DEF NotHandled, serverVars
  <2>2. AllGood'
    BY <2>1 DEF WebInv, TypeOK, AllGood
  <2>3. TypeOK' /\ Serving'
    BY <2>1 DEF WebInv, TypeOK, Serving, InService
  <2> QED BY <2>2, <2>3 DEF WebInv
<1> QED BY <1>1, <1>2, <1>3, <1>4, <1>6, <1>7, <1>8 DEF Handling

(* start() and stop(), and requests coming and going.                       *)
LEMMA ServerStep ==
  ASSUME WebInv, Start \/ Started \/ BeginStop \/ Stopped
  PROVE  WebInv'
<1>1. AllGood'
  BY DEF WebInv, AllGood, Start, Started, BeginStop, Stopped
<1>2. ASSUME Start PROVE TypeOK' /\ Serving'
  BY <1>2, WebServerAssumption DEF WebInv, TypeOK, Serving, InService, Start
<1>3. ASSUME Started PROVE TypeOK' /\ Serving'
  BY <1>3 DEF WebInv, TypeOK, Serving, InService, Started
<1>4. ASSUME BeginStop PROVE TypeOK' /\ Serving'
  BY <1>4 DEF WebInv, TypeOK, Serving, InService, BeginStop
<1>5. ASSUME Stopped PROVE TypeOK' /\ Serving'
  BY <1>5 DEF WebInv, TypeOK, Serving, InService, Stopped
<1> QED BY <1>1, <1>2, <1>3, <1>4, <1>5 DEF WebInv

LEMMA RequestStep ==
  ASSUME WebInv, NEW c \in Clients, server # "fatal", Request(c) \/ PassOn(c) \/ CallHandler(c)
  PROVE  WebInv'
<1>1. ASSUME Request(c) PROVE WebInv'
  <2>1. platform \in Platform
    BY WebServerAssumption DEF WebInv, TypeOK, Platform
  <2>2. Good(platform, FreshResponse) /\ FreshResponse \in Response
    BY <2>1, FreshGood, GoodTyped
  <2>3. AllGood'
    BY <1>1, <2>2 DEF WebInv, TypeOK, AllGood, Request
  <2>4. TypeOK' /\ Serving'
    BY <1>1, WebServerAssumption DEF WebInv, TypeOK, Serving, InService, Request, serverVars
  <2> QED BY <2>3, <2>4 DEF WebInv
<1>2. ASSUME PassOn(c) PROVE WebInv'
  <2>1. AllGood'
    BY <1>2 DEF WebInv, TypeOK, AllGood, PassOn
  <2>2. TypeOK' /\ Serving'
    BY <1>2 DEF WebInv, TypeOK, Serving, InService, PassOn, serverVars
  <2> QED BY <2>1, <2>2 DEF WebInv
<1>3. ASSUME CallHandler(c) PROVE WebInv'
  <2>1. AllGood'
    BY <1>3 DEF WebInv, TypeOK, AllGood, CallHandler
  <2>2. TypeOK' /\ Serving'
    BY <1>3 DEF WebInv, TypeOK, Serving, InService, CallHandler, serverVars
  <2> QED BY <2>1, <2>2 DEF WebInv
<1> QED BY <1>1, <1>2, <1>3

(* Every step keeps the invariant.                                          *)
LEMMA NextWeb == WebInv /\ [Next]_vars => WebInv'
<1>1. ASSUME WebInv, Next PROVE WebInv'
  BY <1>1, ServerStep, RequestStep, HandlingStep DEF Next
<1>2. ASSUME WebInv, UNCHANGED vars PROVE WebInv'
  BY <1>2 DEF WebInv, TypeOK, Serving, InService, AllGood, vars
<1> QED BY <1>1, <1>2

(* The invariant holds in every state.                                      *)
THEOREM WebInvariant == Spec => []WebInv
BY InitWeb, NextWeb, PTL DEF Spec

(* The variables keep their types (TypeOK): responses are in one of their   *)
(* four states and counters within their bounds.                            *)
THEOREM WebTypes == Spec => []TypeOK
<1>1. WebInv => TypeOK
  BY DEF WebInv
<1> QED BY <1>1, WebInvariant, PTL

(* Whoever is inside a handler may use the engine and the handler: stop()   *)
(* takes both away only after the last request (EngineOutlivesRequests;     *)
(* WebServer's and TelemetryServer's stop()).                               *)
THEOREM EngineStays == Spec => []EngineOutlivesRequests
<1>1. WebInv => EngineOutlivesRequests
  BY DEF WebInv, Serving, InService, EngineOutlivesRequests
<1> QED BY <1>1, WebInvariant, PTL

(* Whatever a handler calls in whatever order, no line of the head is       *)
(* written behind its end, where a client would take it for content         *)
(* (NoHeaderInContent).                                                     *)
THEOREM HeadersStayAhead == Spec => []NoHeaderInContent
<1>1. WebInv => NoHeaderInContent
  <2> SUFFICES ASSUME WebInv, NEW c \in Clients, HeadLength(resp[c]) > 0,
                      NEW kind \in {"status", "cors", "header", "type", "length"}
               PROVE  InContent(resp[c], kind) = {}
    BY DEF NoHeaderInContent
  <2> DEFINE r == resp[c]
  <2>1. r \in Response /\ OneHead(r.wire)
    BY DEF WebInv, AllGood, Good, Written
  <2>2. r.wire \in Seq(Tokens) /\ Len(r.wire) \in Nat
    BY <2>1, ResponseParts
  <2> DEFINE n == HeadLength(r)
  <2>3. n \in 1 .. Len(r.wire) /\ r.wire[n].kind = "end"
    BY <2>1, <2>2, HeadEnds
  <2>4. ASSUME NEW i \in n + 1 .. Len(r.wire) PROVE r.wire[i].kind # kind
    <3> HIDE DEF n, r
    <3>1. i \in 1 .. Len(r.wire) /\ n < i
      BY <2>2, <2>3
    <3>2. r.wire[i].kind \in {"body", "last"}
      BY <2>1, <2>3, <3>1 DEF OneHead
    <3> QED BY <3>2
  <2> QED BY <2>4 DEF InContent
<1> QED BY <1>1, WebInvariant, PTL

(* On the desktop a client reads the status, the type, the headers and the  *)
(* body that a handler asked for in order (DesktopBodiesArrive).  A reply   *)
(* without a body is not among them: it repeats the status line.            *)
THEOREM DesktopBodies == Spec => []DesktopBodiesArrive
<1>1. WebInv => DesktopBodiesArrive
  <2> SUFFICES ASSUME WebInv, NEW c \in Clients, platform = "desktop", Answered(c),
                      resp[c].asked.body # "none"
               PROVE  ReplyAsAsked(resp[c])
    BY DEF DesktopBodiesArrive
  <2>1. Good("desktop", resp[c]) /\ resp[c] \in Response
    BY DEF WebInv, AllGood
  <2>2. OneHead(resp[c].wire)
    BY <2>1 DEF Good, Written
  <2>3. \E n \in Nat : BodySent(resp[c].wire, n, resp[c].asked)
    BY <2>1 DEF Good, Ordered, DesktopSent, Answered
  <2> QED BY <2>1, <2>2, <2>3, BodyArrives
<1> QED BY <1>1, WebInvariant, PTL

(* On the ESP32 a reply without a body has one head, with the type and the  *)
(* number of headers asked for, no content and an end                       *)
(* (Esp32EmptyRepliesComplete), whatever has become of the frames that its  *)
(* status line and its keys were in.  Its status and headers need not be    *)
(* the handler's, and it ends twice; replies with a body lose what was set  *)
(* before the headers were open.                                            *)
THEOREM Esp32EmptyReplies == Spec => []Esp32EmptyRepliesComplete
<1>1. WebInv => Esp32EmptyRepliesComplete
  <2> SUFFICES ASSUME WebInv, NEW c \in Clients, platform = "esp32", Answered(c),
                      resp[c].asked.body = "none"
               PROVE  /\ HeadComplete(resp[c]) /\ ContentAsAsked(resp[c])
                      /\ resp[c].wire[Len(resp[c].wire)].kind = "last"
    BY DEF Esp32EmptyRepliesComplete
  <2>1. /\ Good("esp32", resp[c]) /\ resp[c] \in Response /\ resp[c].state = "Done"
    BY DEF WebInv, AllGood, Answered
  <2>2. OneHead(resp[c].wire)
    BY <2>1 DEF Good, Written
  <2>3. resp[c].asked.rank = 5 /\ Esp32Sent(resp[c])
    BY <2>1 DEF Good, Ordered, InOrder, Answered
  <2>4. \E n \in Nat : EmptySent(resp[c].wire, n, resp[c].asked)
    BY <2>3 DEF Esp32Sent
  <2> QED BY <2>1, <2>2, <2>4, EmptyArrives
<1> QED BY <1>1, WebInvariant, PTL

=============================================================================
