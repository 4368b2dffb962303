------------------------------ MODULE Fetching ------------------------------
(* One call of HttpFetcher.get (fetching.py): what it returns or raises for  *)
(* every way a request can end, and the root cause that the staged probe and *)
(* the classifiers of operations/network_diagnosis.py give a failure.  The   *)
(* network is external: a condition says how the request, the probe that     *)
(* follows a failed connection and the second request without certificate    *)
(* verification end.                                                         *)
EXTENDS Naturals

NoStage == "none"

ALL_STAGES == {"REQUEST_CREATED", "POLICY_VALIDATION", "DNS_RESOLUTION", "TCP_CONNECT", "TLS_HANDSHAKE",
               "HTTP_REQUEST_SENT", "HTTP_RESPONSE_RECEIVED", "REDIRECT_VALIDATION", "COMPLETED"}

\* "exactly these fourteen"
ALL_ROOT_CAUSES == {"POLICY_BLOCKED", "URL_VALIDATION_FAILED", "REDIRECT_POLICY_BLOCKED", "DNS_RESOLUTION_FAILED",
                    "TCP_CONNECTION_FAILED", "TLS_HANDSHAKE_FAILED", "CONNECT_TIMEOUT", "READ_TIMEOUT",
                    "HTTP_403_BLOCKED", "HTTP_404", "HTTP_500", "REMOTE_SERVER_DROPPED_CONNECTION",
                    "REMOTE_HOST_UNREACHABLE", "UNKNOWN_FAILURE"}

\* What the operating system tells the probe, for each stage it can stop at (socket and ssl exceptions).
ProbeEnds == {"gaierror", "dns_timeout", "refused", "syn_timeout", "no_route", "os_error",
              "certificate", "ssl_error", "tls_timeout", "reset_in_handshake", "clear"}

Failed(last, stage, cause, confidence) ==
    [last |-> last, stage |-> stage, cause |-> cause, confidence |-> confidence]

ClassifyDns(end) == Failed("POLICY_VALIDATION", "DNS_RESOLUTION", "DNS_RESOLUTION_FAILED",
                           IF end = "gaierror" THEN "HIGH" ELSE "MEDIUM")

ClassifyTcp(end) ==
    Failed("DNS_RESOLUTION", "TCP_CONNECT",
           CASE end = "syn_timeout" -> "CONNECT_TIMEOUT"
             [] end = "no_route" -> "REMOTE_HOST_UNREACHABLE"
             [] OTHER -> "TCP_CONNECTION_FAILED",
           IF end \in {"refused", "no_route"} THEN "HIGH" ELSE "MEDIUM")

ClassifyTls(end) ==
    IF end = "tls_timeout" THEN Failed("TCP_CONNECT", "TLS_HANDSHAKE", "CONNECT_TIMEOUT", "MEDIUM")
                           ELSE Failed("TCP_CONNECT", "TLS_HANDSHAKE", "TLS_HANDSHAKE_FAILED", "HIGH")

\* An OSError in the handshake that is no SSLError and no timeout is not caught: the probe itself raises.
ProbeRaises(end) == end = "reset_in_handshake"

Probe(url, enforce, end) ==
    IF enforce /\ url # "approved" THEN Failed("REQUEST_CREATED", "POLICY_VALIDATION", "POLICY_BLOCKED", "HIGH")
    ELSE
    CASE end \in {"gaierror", "dns_timeout"} -> ClassifyDns(end)
      [] end \in {"refused", "syn_timeout", "no_route", "os_error"} -> ClassifyTcp(end)
      [] end \in {"certificate", "ssl_error", "tls_timeout"} -> ClassifyTls(end)
      [] OTHER -> Failed("TLS_HANDSHAKE", NoStage, NoStage, "HIGH")

ClassifyStatus(code) ==
    CASE code = 403 -> "HTTP_403_BLOCKED"
      [] code = 404 -> "HTTP_404"
      [] code \in 500 .. 599 -> "HTTP_500"
      [] OTHER -> NoStage

\* classify_http_layer_exception for a status code: a code of the closed list has no failure stage.
ClassifyResponse(code) ==
    IF ClassifyStatus(code) = NoStage
    THEN Failed("HTTP_RESPONSE_RECEIVED", "REDIRECT_VALIDATION", "UNKNOWN_FAILURE", "LOW")
    ELSE Failed("HTTP_RESPONSE_RECEIVED", NoStage, ClassifyStatus(code), "HIGH")

ConnectPhase == {"DNS_RESOLUTION_FAILED", "TCP_CONNECTION_FAILED", "TLS_HANDSHAKE_FAILED", "CONNECT_TIMEOUT"}

ClassifyConnectTimeout(probe) ==
    IF probe.stage # NoStage
    THEN [probe EXCEPT !.cause = IF @ \in ConnectPhase THEN "CONNECT_TIMEOUT" ELSE @]
    ELSE Failed(probe.last, "TCP_CONNECT", "CONNECT_TIMEOUT", "LOW")

Dropped(cause) == Failed("HTTP_REQUEST_SENT", "HTTP_RESPONSE_RECEIVED", cause, "HIGH")
Unclassified == Failed(NoStage, NoStage, "UNKNOWN_FAILURE", "LOW")

\* How one httpx request ends: an exception, or an answer with the final address and a status code.
Exceptions == {"ConnectTimeout", "ReadTimeout", "RemoteProtocolError", "ConnectError", "other"}
Codes == {200, 204, 403, 404, 429, 503}
Answers == [final : {"approved", "foreign"}, large : BOOLEAN, code : Codes]

\* The outcome of a call: a response, a FetchError with its classification, or an exception nobody converted.
Returned(code, verified) ==
    [kind |-> "response", code |-> code, verified |-> verified, why |-> Unclassified]
Raised(code, verified, why) == [kind |-> "FetchError", code |-> code, verified |-> verified, why |-> why]
Escaped == [kind |-> "escaped", code |-> 0, verified |-> TRUE, why |-> Unclassified]

\* make_request on an answer: the redirect policy, the size limit, the status code, in this order.
Answered(enforce, verify, answer) ==
    IF enforce /\ answer.final # "approved"
    THEN Raised(0, TRUE, Failed("HTTP_RESPONSE_RECEIVED", "REDIRECT_VALIDATION", "REDIRECT_POLICY_BLOCKED", "HIGH"))
    ELSE IF answer.large THEN Raised(0, TRUE, Dropped("UNKNOWN_FAILURE"))
    ELSE IF answer.code >= 400 THEN Raised(answer.code, TRUE, ClassifyResponse(answer.code))
    ELSE Returned(answer.code, verify)

\* Mutant: the fallback of the source is not asked.
MayBypassAnyway(probe, verify, fallback) == probe.stage = "TLS_HANDSHAKE" /\ verify

MayBypass(probe, verify, fallback) == probe.stage = "TLS_HANDSHAKE" /\ verify /\ fallback

\* The second request, without verification; whatever goes wrong in it is a failed handshake.
Fallback(enforce, probe, second) ==
    IF second.answered /\ Answered(enforce, FALSE, second.answer).kind = "response"
    THEN Answered(enforce, FALSE, second.answer)
    ELSE Raised(0, FALSE, Failed(probe.last, "TLS_HANDSHAKE", "TLS_HANDSHAKE_FAILED", "HIGH"))

ConnectionFailed(enforce, verify, fallback, probe, second) ==
    IF MayBypass(probe, verify, fallback)
    THEN Fallback(enforce, probe, second)
    ELSE Raised(0, verify, [probe EXCEPT !.cause = IF @ = NoStage THEN "UNKNOWN_FAILURE" ELSE @])

(***************************************************************************)
(* HttpFetcher.get.  A condition n is a record: url is approved or foreign; *)
(* first is an exception or, when answered, an answer; probe is how the     *)
(* probe ends; second is the request without verification.                 *)
(***************************************************************************)
Get(n, verify, fallback, enforce) ==
    LET probe == Probe(n.url, enforce, n.probe) IN
    IF enforce /\ n.url # "approved"
    THEN Raised(0, TRUE, Failed("REQUEST_CREATED", "POLICY_VALIDATION", "POLICY_BLOCKED", "HIGH"))
    ELSE IF n.first.answered THEN Answered(enforce, verify, n.first.answer)
    ELSE IF n.first.exception \in {"ConnectTimeout", "ConnectError"} /\ ProbeRaises(n.probe) THEN Escaped
    ELSE
    CASE n.first.exception = "ConnectTimeout" -> Raised(0, TRUE, ClassifyConnectTimeout(probe))
      [] n.first.exception = "ReadTimeout" -> Raised(0, TRUE, Dropped("READ_TIMEOUT"))
      [] n.first.exception = "RemoteProtocolError" -> Raised(0, TRUE, Dropped("REMOTE_SERVER_DROPPED_CONNECTION"))
      [] n.first.exception = "ConnectError" -> ConnectionFailed(enforce, verify, fallback, probe, n.second)
      [] OTHER -> Raised(0, TRUE, Unclassified)

NoAnswer == [final |-> "approved", large |-> FALSE, code |-> 200]
Fails(exception) == [answered |-> FALSE, exception |-> exception, answer |-> NoAnswer]
Answer(final, large, code) ==
    [answered |-> TRUE, exception |-> "other", answer |-> [final |-> final, large |-> large, code |-> code]]
Requests == {Fails(e) : e \in Exceptions} \cup {Answer(a.final, a.large, a.code) : a \in Answers}

\* The conditions in which two requests of one call differ only where the code looks at them.
Conditions ==
    [url : {"approved", "foreign"}, first : Requests, probe : ProbeEnds,
     second : {Fails("ConnectError"), Answer("approved", FALSE, 200), Answer("approved", FALSE, 404),
               Answer("foreign", FALSE, 200)}]
=============================================================================
