---------------------------- MODULE MCWebServer ----------------------------
(* Model checking of WebServer.  Responses share nothing but the handler    *)
(* and the engine, so one client is enough for what they contain; a second  *)
(* run shows what the first one left behind.                                *)
EXTENDS WebServer

MCPlatforms == {"desktop", "esp32"}
MCDesktop == {"desktop"}
MCClients == {"browser"}
=============================================================================
