---------------------------- MODULE MCHttpClient ----------------------------
(* Instances of the HTTP client for TLC. *)
EXTENDS HttpClient

\* Every way a body can end, and every Connection header with one of them.
MCAnswers == [framing : {"length"}, connection : {"close", "absent"}]
             \cup {[framing |-> "chunked", connection |-> "keep-alive"],
                   [framing |-> "none", connection |-> "keep-alive"],
                   [framing |-> "eof", connection |-> "absent"]}
=============================================================================
