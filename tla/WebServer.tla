----------------------------- MODULE WebServer -----------------------------
(***************************************************************************)
(* The web server and the telemetry server on top of it: start() and       *)
(* stop(), the requests the library's threads bring in meanwhile, and the  *)
(* handler that answers them through a WebResponse.  Handlers are code of  *)
(* other components: they may call the response in any order, and          *)
(* properties speak of those that keep to the documented one.              *)
(*                                                                         *)
(* `platform` is the build (desktop: civetweb, worker threads; ESP32:      *)
(* esp_http_server).  Both libraries finish the requests under way before  *)
(* they stop.                                                              *)
(***************************************************************************)
EXTENDS Naturals, FiniteSets, WebResponse

CONSTANTS
  Platforms,     \* the builds looked at: subset of {"desktop", "esp32"}
  Clients,       \* connections to the server
  MaxRuns,       \* bound on the times the server is started
  MaxRequests,   \* bound on the requests of one client
  MaxHeaders     \* bound on the headers of one reply

ASSUME WebServerAssumption ==
  /\ Platforms \subseteq {"desktop", "esp32"}
  /\ MaxRuns \in Nat /\ MaxRequests \in Nat /\ MaxHeaders \in Nat

VARIABLES
  platform,
  server,     \* "stopped", "listening" (inside start), "running", "stopping", "fatal"
  handler,    \* whether WebServer::handler is set
  engine,     \* whether TelemetryServer::Impl::engine is set
  runs,       \* starts so far
  phase,      \* Clients -> what is done with the client's request
  resp,       \* Clients -> the response of the request
  requests    \* Clients -> requests so far

vars == <<platform, server, handler, engine, runs, phase, resp, requests>>
serverVars == <<server, handler, engine, runs>>

Init ==
  /\ platform \in Platforms
  /\ server = "stopped" /\ handler = FALSE /\ engine = FALSE /\ runs = 0
  /\ phase = [c \in Clients |-> "idle"]
  /\ resp = [c \in Clients |-> FreshResponse]
  /\ requests = [c \in Clients |-> 0]

InService(c) == phase[c] \in {"arrived", "handling"}

-----------------------------------------------------------------------------
(* TelemetryServer::start() and stop().                                     *)

(* The library listens from here on.  On the ESP32 the handler is in place, *)
(* on the desktop it is assigned after the callback was registered.         *)
Start ==
  /\ server = "stopped" /\ runs < MaxRuns
  /\ server' = "listening" /\ runs' = runs + 1 /\ engine' = TRUE
  /\ handler' = (handler \/ platform = "esp32")
  /\ UNCHANGED <<platform, phase, resp, requests>>

Started ==
  /\ server = "listening"
  /\ server' = "running" /\ handler' = TRUE
  /\ UNCHANGED <<platform, engine, runs, phase, resp, requests>>

(* slip: the engine is forgotten before the web server is stopped.          *)
BeginStopForgetting ==
  /\ server = "running"
  /\ server' = "stopping" /\ engine' = FALSE
  /\ UNCHANGED <<platform, handler, runs, phase, resp, requests>>

BeginStop ==
  /\ server = "running"
  /\ server' = "stopping"
  /\ UNCHANGED <<platform, handler, engine, runs, phase, resp, requests>>

(* slip: the handler outlives the server.                                   *)
StoppedKeepingHandler ==
  /\ server = "stopping" /\ \A c \in Clients : ~InService(c)
  /\ server' = "stopped" /\ engine' = FALSE
  /\ UNCHANGED <<platform, handler, runs, phase, resp, requests>>

Stopped ==
  /\ server = "stopping" /\ \A c \in Clients : ~InService(c)
  /\ server' = "stopped" /\ engine' = FALSE
  /\ handler' = (handler /\ platform = "esp32")
  /\ UNCHANGED <<platform, runs, phase, resp, requests>>

-----------------------------------------------------------------------------
(* One request.                                                             *)

Request(c) ==
  /\ ~InService(c) /\ requests[c] < MaxRequests
  /\ server \in {"listening", "running"}
  /\ phase' = [phase EXCEPT ![c] = "arrived"]
  /\ resp' = [resp EXCEPT ![c] = FreshResponse]
  /\ requests' = [requests EXCEPT ![c] = @ + 1]
  /\ UNCHANGED <<platform, serverVars>>

(* The library answers by itself: the desktop serves a static file or 404.  *)
PassOn(c) ==
  /\ phase[c] = "arrived" /\ platform = "desktop"
  /\ phase' = [phase EXCEPT ![c] = "fallback"]
  /\ UNCHANGED <<platform, serverVars, resp, requests>>

(* The handler of the telemetry server looks at impl->engine once; its     *)
(* answer without an engine (503) would be the violation of                 *)
(* EngineOutlivesRequests.                                                  *)
CallHandler(c) ==
  /\ phase[c] = "arrived" /\ handler
  /\ phase' = [phase EXCEPT ![c] = "handling"]
  /\ UNCHANGED <<platform, serverVars, resp, requests>>

(* A header call after the body and a body after finish() end the process.  *)
Operate(c, refused, r) ==
  /\ phase[c] = "handling"
  /\ IF refused THEN server' = "fatal" /\ resp' = resp
     ELSE server' = server /\ resp' = [resp EXCEPT ![c] = r]
  /\ UNCHANGED <<platform, handler, engine, runs, phase, requests>>

Status(c, code) == Operate(c, HeadersRefused(resp[c]), SetStatusCode(platform, resp[c], code))
Type(c) == Operate(c, HeadersRefused(resp[c]), SetContentType(platform, resp[c], "json"))
Header(c) == /\ resp[c].asked.headers < MaxHeaders
             /\ Operate(c, HeadersRefused(resp[c]), AddHeader(platform, resp[c]))
(* One body per request, as documented: more would only append bytes.       *)
Body(c, body) == /\ resp[c].asked.body = "none"
                 /\ \E stale \in Overwritten :
                      Operate(c, BodyRefused(resp[c]), SetBody(platform, resp[c], body, stale))
FinishEarly(c) == /\ resp[c].state # "Done"
                  /\ \E stale \in Overwritten :
                       Operate(c, FALSE, Finish(platform, resp[c], stale))

(* The handler returns true, or false for a request that is not its own.    *)
Handled(c) ==
  /\ phase[c] = "handling"
  /\ phase' = [phase EXCEPT ![c] = "answered"]
  /\ \E stale \in Overwritten : resp' = [resp EXCEPT ![c] = Finish(platform, @, stale)]
  /\ UNCHANGED <<platform, serverVars, requests>>

NotHandled(c) ==
  /\ phase[c] = "handling"
  /\ phase' = [phase EXCEPT ![c] = "fallback"]
  /\ UNCHANGED <<platform, serverVars, resp, requests>>

Handling(c) ==
  \/ \E code \in {"200", "404"} : Status(c, code)
  \/ Type(c)
  \/ Header(c)
  \/ \E body \in {"empty", "text"} : Body(c, body)
  \/ FinishEarly(c)
  \/ Handled(c)
  \/ NotHandled(c)

Next ==
  /\ server # "fatal"
  /\ \/ Start \/ Started \/ BeginStop \/ Stopped
     \/ \E c \in Clients : Request(c) \/ PassOn(c) \/ CallHandler(c) \/ Handling(c)

Spec == Init /\ [][Next]_vars

-----------------------------------------------------------------------------
(* Properties.                                                              *)

TypeOK ==
  /\ platform \in Platforms
  /\ server \in {"stopped", "listening", "running", "stopping", "fatal"}
  /\ handler \in BOOLEAN /\ engine \in BOOLEAN /\ runs \in 0 .. MaxRuns
  /\ phase \in [Clients -> {"idle", "arrived", "handling", "answered", "fallback"}]
  /\ requests \in [Clients -> 0 .. MaxRequests]
  /\ server = "running" => handler /\ engine
  /\ server = "stopped" => ~engine /\ (platform = "desktop" => ~handler)

(* TelemetryServer::stop() drops the engine only when no handler is left    *)
(* that has looked at it (TelemetryServer.cpp:229, 267-275), and no request *)
(* is being served once the server is stopped.                              *)
EngineOutlivesRequests ==
  \A c \in Clients : phase[c] = "handling" => engine /\ server # "stopped"

Answered(c) == phase[c] = "answered" /\ resp[c].asked.rank # OutOfOrder

(* On the desktop a reply with a body is the one asked for, whichever of    *)
(* the optional calls the handler made: the lines are written by different  *)
(* calls, and each must be written exactly once.                            *)
DesktopBodiesArrive ==
  \A c \in Clients :
    platform = "desktop" /\ Answered(c) /\ resp[c].asked.body # "none" => ReplyAsAsked(resp[c])

(* On the ESP32 a reply without a body has one head, with the type and the  *)
(* number of headers asked for, no content, and an end, whatever the        *)
(* pointers to the status line and the keys have come to point at:          *)
(* finish() sends what the header calls only remembered                     *)
(* (WebServer_esp32.cpp:122-144).  What the texts are, and that a second    *)
(* last chunk follows the first (:137, :141), it leaves open.               *)
Esp32EmptyRepliesComplete ==
  \A c \in Clients :
    platform = "esp32" /\ Answered(c) /\ resp[c].asked.body = "none" =>
      /\ HeadComplete(resp[c]) /\ ContentAsAsked(resp[c])
      /\ resp[c].wire[Len(resp[c].wire)].kind = "last"

(* In whatever order a handler calls the response, no header ever lands     *)
(* behind the end of the head, where the client takes it for content.       *)
NoHeaderInContent ==
  \A c \in Clients : HeadLength(resp[c]) > 0 =>
    \A kind \in {"status", "cors", "header", "type", "length"} : InContent(resp[c], kind) = {}

-----------------------------------------------------------------------------
(* What comments of the code say and the code does not do.                  *)

(* WebServer_desktop.cpp:259-261 offers finish() to handlers that return    *)
(* before they have written a body: it completes the reply.                 *)
RepliesAsAsked == \A c \in Clients : Answered(c) => ReplyAsAsked(resp[c])

=============================================================================
