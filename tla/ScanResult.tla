----------------------------- MODULE ScanResult -----------------------------
(***************************************************************************)
(* What a scan promises Postgres, with no goroutine, buffer or context.    *)
(* Postgres receives the rows of the plugin's stream one by one, in order, *)
(* and then at most one verdict: the end of the scan, an error, or nothing *)
(* more because Postgres stopped the scan itself.                          *)
(***************************************************************************)
EXTENDS Naturals, Sequences

CONSTANTS
    Connections,    \* the connections rows come from
    MaxRows         \* bound on the rows of the stream

VARIABLES
    sent,           \* the connection of each row of the stream, in order
    ending,         \* how the stream ended
    delivered,      \* the rows Postgres has received
    verdict         \* how the scan ended for Postgres

vars == <<sent, ending, delivered, verdict>>

Init ==
    /\ sent = <<>>
    /\ ending = "open"
    /\ delivered = <<>>
    /\ verdict = "none"

PluginSends ==
    /\ ending = "open"
    /\ Len(sent) < MaxRows
    /\ \E c \in Connections : sent' = Append(sent, c)
    /\ UNCHANGED <<ending, delivered, verdict>>

PluginEnds ==
    /\ ending = "open"
    /\ ending' \in {"nil", "eof", "error"}
    /\ UNCHANGED <<sent, delivered, verdict>>

AllDelivered == Len(delivered) = Len(sent)

Deliver ==
    /\ verdict = "none"
    /\ ~AllDelivered
    /\ delivered' = Append(delivered, Len(delivered) + 1)
    /\ UNCHANGED <<sent, ending, verdict>>

\* A scan ends once a stream that ended is exhausted; it may also end on a stream
\* that failed, which is weaker than what Next promises.
End ==
    /\ verdict = "none"
    /\ \/ ending \in {"nil", "eof"} /\ AllDelivered
       \/ ending = "error"
    /\ verdict' = "end"
    /\ UNCHANGED <<sent, ending, delivered>>

\* It fails because the stream failed, because a row that was sent cannot be
\* decoded, or because the scan never started.
Fail ==
    /\ verdict = "none"
    /\ ending = "error" \/ ~AllDelivered \/ sent = <<>>
    /\ verdict' = "error"
    /\ UNCHANGED <<sent, ending, delivered>>

Stop ==
    /\ verdict = "none"
    /\ verdict' = "stopped"
    /\ UNCHANGED <<sent, ending, delivered>>

Next == PluginSends \/ PluginEnds \/ Deliver \/ End \/ Fail \/ Stop

Spec == Init /\ [][Next]_vars

=============================================================================
