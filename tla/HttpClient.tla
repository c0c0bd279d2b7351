----------------------------- MODULE HttpClient -----------------------------
(***************************************************************************)
(* httpclient.c over espconn: requests from http_raw_request to the one    *)
(* call of their callback that frees them, whatever the resolver, the      *)
(* server, the timeout and TCP do and in whatever order.                   *)
(*                                                                         *)
(* link is the espconn of a request with the node that espconn keeps for   *)
(* it: "closing" and "failed" mean that SIG_ESPCONN_CLOSE or               *)
(* SIG_ESPCONN_ERRER is posted for it, "lost" that espconn_connect failed  *)
(* and left no node.  espconn->state is ESPCONN_CLOSE in the first two.    *)
(* A response is a sequence of segments, numbered from one.                *)
(***************************************************************************)
EXTENDS Integers, Sequences, FiniteSets

CONSTANTS
    Requests,
    Lengths,           \* segments of the responses
    BUFFER_SIZE_MAX,   \* in segments
    MaxCon,            \* espconn_tcp_get_max_con
    MallocMayFail,     \* for the growing buffer
    FinMayFail,        \* tcp_close finds no memory for a FIN
    RouteMayFail       \* espconn_connect finds no route or no address

ASSUME HttpAssumption ==
    /\ Lengths \subseteq Nat
    /\ BUFFER_SIZE_MAX \in Nat /\ MaxCon \in Nat
    /\ MallocMayFail \in BOOLEAN /\ FinMayFail \in BOOLEAN /\ RouteMayFail \in BOOLEAN

VARIABLES
    phase,      \* "new", waiting for "dns", with a "link", or "freed"
    link,       \* see above
    timer,      \* timeout_timer is armed
    buffer,     \* the segments in req->buffer, behind its first byte
    discarded,  \* buffer[0] is '\0' although segments were received
    postData,   \* req->post_data is not NULL
    inFlight,   \* what espconn holds until it is acknowledged
    length,     \* segments the server sends
    arrived,    \* segments of them that were delivered
    answers,    \* history: the statuses the callback was called with
    cut         \* history: the request failed or timed out

request == <<phase, timer, postData, answers, cut>>
response == <<buffer, discarded, arrived>>
vars == <<request, response, link, inFlight, length>>

Links == {"none", "wait", "up", "half", "closing", "failed", "lost"}
Posted(r) == link[r] \in {"closing", "failed"}
HasNode(r) == link[r] \in {"wait", "up", "half", "closing", "failed"}

Init ==
    /\ phase = [r \in Requests |-> "new"]
    /\ link = [r \in Requests |-> "none"]
    /\ timer = [r \in Requests |-> FALSE]
    /\ buffer = [r \in Requests |-> <<>>]
    /\ discarded = [r \in Requests |-> FALSE]
    /\ postData = [r \in Requests |-> FALSE]
    /\ inFlight = [r \in Requests |-> "nothing"]
    /\ length \in [Requests -> Lengths]
    /\ arrived = [r \in Requests |-> 0]
    /\ answers = [r \in Requests |-> <<>>]
    /\ cut = [r \in Requests |-> FALSE]

-----------------------------------------------------------------------------
(* espconn *)

\* The node goes into the active list unless the list is full or there is no
\* route; the result of espconn_connect is ignored.
espconn_connect(r) ==
    /\ link' \in {[link EXCEPT ![r] = l] :
            l \in IF Cardinality({q \in Requests : HasNode(q)}) >= MaxCon THEN {"lost"}
                  ELSE IF RouteMayFail THEN {"wait", "lost"} ELSE {"wait"}}
    /\ cut' = [cut EXCEPT ![r] = (link'[r] = "lost")]

\* A close without a connection always succeeds; one that needs a FIN may
\* fail, and is not tried again.
espconn_client_close(r, onFailure) ==
    \/ link' = [link EXCEPT ![r] = "closing"]
    \/ FinMayFail /\ link[r] # "wait" /\ link' = [link EXCEPT ![r] = onFailure]

\* "protect for redisconnection"
InProgress(r) == Posted(r)

espconn_disconnect(r) ==
    IF HasNode(r) /\ ~InProgress(r) THEN espconn_client_close(r, link[r])
    ELSE UNCHANGED link

-----------------------------------------------------------------------------
(* The request *)

FreeRequest(r, status) ==
    /\ answers' = [answers EXCEPT ![r] = Append(@, status)]
    /\ phase' = [phase EXCEPT ![r] = "freed"]

\* The timeout covers the attempt to connect.
ArmedFor_Connected == FALSE
ArmedFor == TRUE

http_dns_callback(r, found) ==
    IF found
    THEN /\ phase' = [phase EXCEPT ![r] = "link"]
         /\ timer' = [timer EXCEPT ![r] = ArmedFor]
         /\ espconn_connect(r)
         /\ UNCHANGED answers
    ELSE FreeRequest(r, "error") /\ UNCHANGED <<timer, link, cut>>

\* espconn_gethostbyname answers at once or later.
http_raw_request(r, hasData) ==
    /\ phase[r] = "new"
    /\ postData' = [postData EXCEPT ![r] = hasData]
    /\ \/ phase' = [phase EXCEPT ![r] = "dns"] /\ UNCHANGED <<timer, link, answers, cut>>
       \/ \E found \in BOOLEAN : http_dns_callback(r, found)
    /\ UNCHANGED <<response, inFlight, length>>

ResolverAnswers(r) ==
    /\ phase[r] = "dns"
    /\ \E found \in BOOLEAN : http_dns_callback(r, found)
    /\ UNCHANGED <<response, postData, inFlight, length>>

http_connect_callback(r) ==
    /\ link[r] = "wait"
    /\ link' = [link EXCEPT ![r] = "up"]
    /\ inFlight' = [inFlight EXCEPT ![r] = "headers"]
    /\ UNCHANGED <<request, response, length>>

\* The headers were acknowledged: the body follows, and its copy is freed.
NextToSend(r) == IF postData[r] THEN "body" ELSE "nothing"

http_send_callback(r) ==
    /\ link[r] \in {"up", "half"} /\ inFlight[r] # "nothing"
    /\ inFlight' = [inFlight EXCEPT ![r] = NextToSend(r)]
    /\ postData' = [postData EXCEPT ![r] = FALSE]
    /\ UNCHANGED <<phase, timer, answers, cut, response, link, length>>

\* realloc() of the buffer, or the end of the request.
Fits_OffByOne(r) == Len(buffer[r]) <= BUFFER_SIZE_MAX
Fits(r) == Len(buffer[r]) < BUFFER_SIZE_MAX
Discards_Not(r) == FALSE
Discards(r) == buffer[r] # <<>>

http_receive_callback(r) ==
    /\ link[r] = "up" /\ arrived[r] < length[r]
    /\ arrived' = [arrived EXCEPT ![r] = @ + 1]
    /\ \/ /\ Fits(r)
          /\ buffer' = [buffer EXCEPT ![r] = Append(@, arrived'[r])]
          /\ UNCHANGED <<discarded, link>>
       \/ /\ ~Fits(r) \/ MallocMayFail
          /\ discarded' = [discarded EXCEPT ![r] = @ \/ Discards(r)]
          /\ espconn_disconnect(r)
          /\ UNCHANGED buffer
    /\ UNCHANGED <<request, inFlight, length>>

\* A response starts with its version if its first segment came through.
Status(r) ==
    IF buffer[r] = <<>> \/ discarded[r] \/ Head(buffer[r]) # 1 THEN "error" ELSE "ok"

Disarmed_Not(r) == timer
Disarmed(r) == [timer EXCEPT ![r] = FALSE]

\* http_disconnect_callback, which http_error_callback calls as well.
espconn_Task(r) ==
    /\ Posted(r)
    /\ link' = [link EXCEPT ![r] = "none"]
    /\ timer' = Disarmed(r)
    /\ postData' = [postData EXCEPT ![r] = FALSE]
    /\ inFlight' = [inFlight EXCEPT ![r] = "nothing"]
    /\ FreeRequest(r, Status(r))
    /\ UNCHANGED <<response, length, cut>>

http_timeout_callback(r) ==
    /\ timer[r]
    /\ timer' = [timer EXCEPT ![r] = FALSE]
    /\ cut' = [cut EXCEPT ![r] = @ \/ ~Posted(r)]
    /\ espconn_disconnect(r)
    /\ UNCHANGED <<phase, postData, answers, response, inFlight, length>>

\* The server closes its side, sooner or later.
PeerCloses(r) ==
    /\ link[r] = "up"
    /\ espconn_client_close(r, "half")
    /\ cut' = [cut EXCEPT ![r] = @ \/ arrived[r] < length[r]]
    /\ UNCHANGED <<phase, timer, postData, answers, response, inFlight, length>>

\* A reset, or retries that ran out.
espconn_client_err(r) ==
    /\ link[r] \in {"wait", "up", "half"}
    /\ link' = [link EXCEPT ![r] = "failed"]
    /\ cut' = [cut EXCEPT ![r] = TRUE]
    /\ UNCHANGED <<phase, timer, postData, answers, response, inFlight, length>>

Next ==
    \E r \in Requests :
        \/ \E hasData \in BOOLEAN : http_raw_request(r, hasData)
        \/ ResolverAnswers(r)
        \/ http_connect_callback(r) \/ http_send_callback(r) \/ http_receive_callback(r)
        \/ espconn_Task(r) \/ http_timeout_callback(r)
        \/ PeerCloses(r) \/ espconn_client_err(r)

Spec == Init /\ [][Next]_vars

\* The resolver gives up by itself, timers fire and posted events are taken;
\* nothing is assumed of the server.
FairSpec ==
    /\ Spec
    /\ \A r \in Requests : /\ WF_vars(ResolverAnswers(r))
                           /\ WF_vars(http_timeout_callback(r))
                           /\ WF_vars(espconn_Task(r))

-----------------------------------------------------------------------------
(* Types; the buffer stays within its limit.                               *)
TypeOK ==
    /\ phase \in [Requests -> {"new", "dns", "link", "freed"}]
    /\ link \in [Requests -> Links] /\ timer \in [Requests -> BOOLEAN]
    /\ buffer \in [Requests -> Seq(Nat)]
    /\ \A r \in Requests : Len(buffer[r]) <= BUFFER_SIZE_MAX
    /\ discarded \in [Requests -> BOOLEAN]
    /\ postData \in [Requests -> BOOLEAN]
    /\ inFlight \in [Requests -> {"nothing", "headers", "body"}]
    /\ length \in [Requests -> Lengths] /\ arrived \in [Requests -> Nat]
    /\ answers \in [Requests -> Seq({"ok", "error"})] /\ cut \in [Requests -> BOOLEAN]

(* The callback is called once, when the request is freed, and afterwards  *)
(* neither the timer nor espconn nor the resolver can touch it any more.   *)
FreedOnce ==
    \A r \in Requests :
        /\ Len(answers[r]) = IF phase[r] = "freed" THEN 1 ELSE 0
        /\ phase[r] = "freed" => ~timer[r] /\ link[r] = "none"
        /\ phase[r] # "link" => link[r] = "none"

(* A response passed on as one has no hole, even after a segment was       *)
(* refused and the close that should follow failed.                        *)
NoHoles ==
    \A r \in Requests :
        "ok" \in {answers[r][i] : i \in DOMAIN answers[r]} =>
            \A i \in DOMAIN buffer[r] : buffer[r][i] = i

(* Without a failure, a timeout or a response too long, the application    *)
(* gets all of what the server sent before it closed.                      *)
WholeUnlessCut ==
    \A r \in Requests :
        phase[r] = "freed" /\ answers[r] = <<"ok">> => Len(buffer[r]) = length[r] \/ cut[r]

(* Every request is answered, unless its one timeout came when TCP could   *)
(* not close, or found that espconn_connect had failed.                    *)
EveryRequestAnswered ==
    \A r \in Requests :
        phase[r] \in {"dns", "link"} ~>
            phase[r] = "freed" \/ (~timer[r] /\ link[r] \in {"up", "half", "lost"})
=============================================================================
