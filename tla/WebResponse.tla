---------------------------- MODULE WebResponse ----------------------------
(***************************************************************************)
(* The response object of the web server (WebServer.h) as both platforms   *)
(* implement it: WebServer_desktop.cpp writes each line to the connection  *)
(* as it is called, WebServer_esp32.cpp sets fields that the server        *)
(* library sends in front of the first chunk.                              *)
(*                                                                         *)
(* What goes out is a sequence of tokens: "status", "cors", "header",      *)
(* "type" and "length" lines, the "end" of the head, "body" bytes and, for *)
(* the chunked replies of the ESP32, the "last" chunk.  A body of no bytes *)
(* is "empty".                                                             *)
(*                                                                         *)
(* The library behind the ESP32 keeps the pointers it is given until the   *)
(* first chunk goes out.  Literals and the handler's strings last; the     *)
(* status line and the keys of headers are locals of functions that have   *)
(* returned by then, so each may have become another text, "stale".  It is *)
(* taken to be read as one line.                                           *)
(*                                                                         *)
(* `asked` remembers the handler's calls: what a reader of the response    *)
(* should find, and whether they came in the order WebServer.h:62-74 asks  *)
(* for (status, type, headers, one body, finish).                          *)
(***************************************************************************)
EXTENDS Sequences, SequencesExt

Token(kind, value) == [kind |-> kind, value |-> value]

NothingAsked == [status |-> "200", type |-> "text", headers |-> 0, body |-> "none",
                 rank |-> 0]

(* `pending` is what esp_http_server keeps until the first chunk; dangling: *)
(* its status is that of a frame that is gone, not the library's own.       *)
FreshResponse ==
  [state |-> "Start", status |-> "200", type |-> "text", wire |-> <<>>,
   pending |-> [status |-> "200", dangling |-> FALSE, type |-> "html", lines |-> <<>>],
   asked |-> NothingAsked]

(* slip: only a body forbids headers, not finish().                         *)
HeadersRefusedByBody(r) == r.state = "BodyStreaming"

HeadersRefused(r) == r.state \in {"BodyStreaming", "Done"}
BodyRefused(r) == r.state = "Done"

(* The handler's calls have ranks 1 to 5; only add_header may repeat.       *)
OutOfOrder == 6

InTurn(r, rank) ==
  [r EXCEPT !.asked.rank = IF rank > @ \/ (rank = 3 /\ @ = 3) THEN rank ELSE OutOfOrder]

Ask(r, rank, field, value) == InTurn([r EXCEPT !.asked[field] = value], rank)

-----------------------------------------------------------------------------
(* Desktop.                                                                 *)

Write(r, tokens) == [r EXCEPT !.wire = @ \o tokens]

WriteStatusAndCors(r, code) == Write(r, <<Token("status", code), Token("cors", "any")>>)

OpenHead(r, code) ==
  IF r.state = "Start" THEN [WriteStatusAndCors(r, code) EXCEPT !.state = "HeadersOpen"] ELSE r

DesktopStatus(r, code) == [OpenHead(r, code) EXCEPT !.status = code]

DesktopType(r, type) == [OpenHead(r, r.status) EXCEPT !.type = type]

DesktopHeader(r) == Write(OpenHead(r, r.status), <<Token("header", "line")>>)

Bytes(body) == IF body = "empty" THEN <<>> ELSE <<Token("body", body)>>

(* slip: the head is closed only if an earlier call had opened it.          *)
DesktopBodyElseIf(r, body) ==
  LET head == IF r.state = "HeadersOpen"
              THEN <<Token("type", r.type), Token("length", body), Token("end", "head")>>
              ELSE <<>>
  IN [Write(OpenHead(r, r.status), head \o Bytes(body)) EXCEPT !.state = "BodyStreaming"]

DesktopBody(r, body) ==
  LET open == OpenHead(r, r.status)
      head == IF open.state = "HeadersOpen"
              THEN <<Token("type", r.type), Token("length", body), Token("end", "head")>>
              ELSE <<>>
  IN [Write(open, head \o Bytes(body)) EXCEPT !.state = "BodyStreaming"]

DesktopFinish(r) ==
  IF r.state = "Done" THEN r
  ELSE [Write(r, IF r.state = "BodyStreaming" THEN <<>>
                 ELSE <<Token("status", r.status), Token("type", r.type),
                        Token("length", "empty"), Token("end", "head")>>)
          EXCEPT !.state = "Done"]

-----------------------------------------------------------------------------
(* ESP32.  httpd_resp_set_* change the pending head; the first chunk sends  *)
(* it, and a chunk without bytes ends the reply.  `stale` says which texts  *)
(* have been overwritten when the head is sent.                             *)

SetStatusAndCors(r, code) ==
  [r EXCEPT !.pending.status = code, !.pending.dangling = TRUE,
            !.pending.lines = Append(@, Token("cors", "any"))]

SetPendingType(r) == [r EXCEPT !.pending.type = r.type]

Overwritten == SUBSET {"status", "header"}

LinesFound(lines, stale) ==
  IF "header" \in stale
  THEN [i \in 1 .. Len(lines) |->
          IF lines[i].kind = "header" THEN Token("header", "stale") ELSE lines[i]]
  ELSE lines

(* What the library finds behind the pointers it has kept.                  *)
Found(p, stale) ==
  [p EXCEPT !.status = IF p.dangling /\ "status" \in stale THEN "stale" ELSE @,
            !.lines = LinesFound(@, stale)]

SendChunk(r, tokens, stale) ==
  LET p == Found(r.pending, stale)
  IN Write(r, (IF r.wire = <<>>
               THEN <<Token("status", p.status), Token("type", p.type)>> \o p.lines
                      \o <<Token("end", "head")>>
               ELSE <<>>) \o tokens)

LastChunk == <<Token("last", "chunk")>>

EnsureHeadersOpen(r) == [r EXCEPT !.state = IF @ = "Start" THEN "HeadersOpen" ELSE @]

Esp32Status(r, code) == [EnsureHeadersOpen(r) EXCEPT !.status = code]

Esp32Type(r, type) == [EnsureHeadersOpen(r) EXCEPT !.type = type]

Esp32Header(r) ==
  LET first == IF r.state = "Start" THEN SetStatusAndCors(r, r.status) ELSE r
  IN [EnsureHeadersOpen(first) EXCEPT !.pending.lines = Append(@, Token("header", "line"))]

Esp32Body(r, body, stale) ==
  LET first == IF r.state = "Start" THEN SetPendingType(SetStatusAndCors(r, r.status)) ELSE r
      open == [first EXCEPT !.state = "BodyStreaming"]
  IN IF body = "empty" THEN open ELSE SendChunk(open, Bytes(body), stale)

(* slip: the empty reply is ended without its status and type.              *)
Esp32FinishBare(r, stale) ==
  IF r.state = "Done" THEN r ELSE [SendChunk(r, LastChunk, stale) EXCEPT !.state = "Done"]

(* A chunk of no bytes is a last chunk: an empty reply is ended twice.      *)
Esp32Finish(r, stale) ==
  LET empty == SendChunk(SetPendingType(SetStatusAndCors(r, r.status)), LastChunk, stale)
      first == IF r.state \in {"Start", "HeadersOpen"} THEN empty ELSE r
  IN IF r.state = "Done" THEN r ELSE [SendChunk(first, LastChunk, stale) EXCEPT !.state = "Done"]

-----------------------------------------------------------------------------
(* The operations as a handler calls them.                                  *)

SetStatusCode(platform, r, code) ==
  Ask(IF platform = "desktop" THEN DesktopStatus(r, code) ELSE Esp32Status(r, code),
      1, "status", code)

SetContentType(platform, r, type) ==
  Ask(IF platform = "desktop" THEN DesktopType(r, type) ELSE Esp32Type(r, type),
      2, "type", type)

AddHeader(platform, r) ==
  Ask(IF platform = "desktop" THEN DesktopHeader(r) ELSE Esp32Header(r),
      3, "headers", r.asked.headers + 1)

SetBody(platform, r, body, stale) ==
  Ask(IF platform = "desktop" THEN DesktopBody(r, body) ELSE Esp32Body(r, body, stale),
      4, "body", body)

(* The server finishes a response again after a handler that has done so.   *)
Finish(platform, r, stale) ==
  IF r.state = "Done" THEN r
  ELSE InTurn(IF platform = "desktop" THEN DesktopFinish(r) ELSE Esp32Finish(r, stale), 5)

-----------------------------------------------------------------------------
(* A client's reading of a finished reply: the positions, in the head and   *)
(* behind it, of the tokens of a kind.                                      *)

HeadLength(r) == SelectInSeq(r.wire, LAMBDA t : t.kind = "end")
InHead(r, kind) == {i \in 1 .. HeadLength(r) - 1 : r.wire[i].kind = kind}
InContent(r, kind) == {i \in HeadLength(r) + 1 .. Len(r.wire) : r.wire[i].kind = kind}

(* The head begins with the one status line and has the type and as many    *)
(* headers as were asked for ...                                            *)
HeadComplete(r) ==
  /\ HeadLength(r) > 0
  /\ InHead(r, "status") = {1}
  /\ \E i \in DOMAIN r.wire : InHead(r, "type") = {i} /\ r.wire[i].value = r.asked.type
  /\ Cardinality(InHead(r, "header")) = r.asked.headers

(* ... and the status and the headers are the ones asked for.               *)
HeadAsAsked(r) ==
  /\ HeadComplete(r)
  /\ r.wire[1].value = r.asked.status
  /\ \A i \in InHead(r, "header") : r.wire[i].value = "line"

(* The bytes after the head are those asked for, and Content-Length, where  *)
(* there is one, is their length.                                           *)
ContentAsAsked(r) ==
  LET body == IF r.asked.body = "none" THEN "empty" ELSE r.asked.body
  IN /\ IF body = "empty" THEN InContent(r, "body") = {}
        ELSE \E i \in DOMAIN r.wire : InContent(r, "body") = {i} /\ r.wire[i].value = body
     /\ \A i \in InHead(r, "length") : r.wire[i].value = body

ReplyAsAsked(r) == HeadAsAsked(r) /\ ContentAsAsked(r)

=============================================================================
