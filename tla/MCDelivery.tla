----------------------------- MODULE MCDelivery -----------------------------
(* The streams chat and plain are two openings of one source, for the interactive and
   the other platforms, which a request to the webhook of the source is for, too; an
   action cannot be rendered for what that request brings. *)
EXTENDS Delivery

CONSTANTS chat, plain, other, slack, mattermost, webhook, pagerDuty, describe, logs, e1, req, src, src2

OneSource == [s \in Streams |-> src]
ChatAndPlain == [s \in Streams |-> IF s = plain THEN <<e1>> ELSE <<>>]
PlainAndOther == [s \in Streams |-> <<e1>>]
TwoSources == [s \in Streams |-> IF s = other THEN src2 ELSE src]
ForSource == [r \in Requests |-> src]
BoundToSource == [x \in Sinks \cup Actions |-> {src}]
BadForRequest == {<<logs, req>>}
=============================================================================
