----------------------------- MODULE MCWebhooks -----------------------------
(* Two endpoints, one of them with a URL that is refused by now, and three tasks. *)
EXTENDS Webhooks

CONSTANTS a, b, none

MCEndpoints == {a,b}
MCUnsafe == {b}
MCOffered == <<{"event"}, {"event"}, {"ping", "redelivery"}>>
=============================================================================
