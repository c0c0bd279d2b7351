-------------------------- MODULE HttpClient_proofs --------------------------
(* Proofs about HttpClient, for any number of requests, any limits and any *)
(* of the failures.                                                        *)
EXTENDS HttpClient, SequenceTheorems, TLAPS

\* Until it is freed a request is not answered; once it is, nothing is due.
Once(r) ==
    /\ phase[r] = "freed" => Len(answers[r]) = 1 /\ ~timer[r]
    /\ phase[r] # "freed" => answers[r] = <<>>
    /\ phase[r] # "link" => link[r] = "none"
    /\ phase[r] \in {"new", "dns"} => ~timer[r]

\* The buffer holds the latest of the arrived segments, one after the other.
Gapless(r) ==
    ~discarded[r] => /\ Len(buffer[r]) <= arrived[r]
                     /\ \A i \in 1 .. Len(buffer[r]) :
                          buffer[r][i] = arrived[r] - Len(buffer[r]) + i

\* Why a link is on its way to its end.
Ending(r) ==
    /\ arrived[r] <= length[r]
    /\ link[r] \in {"half", "closing"} =>
          cut[r] \/ arrived[r] = length[r] \/ discarded[r] \/ buffer[r] = <<>>
    /\ link[r] = "failed" => cut[r]

\* What an answer that is not an error says of the response.
Answer(r) ==
    answers[r] = <<"ok">> =>
        /\ ~discarded[r] /\ buffer[r] # <<>> /\ buffer[r][1] = 1
        /\ cut[r] \/ arrived[r] = length[r]

HInv == TypeOK /\ \A r \in Requests : Once(r) /\ Gapless(r) /\ Ending(r) /\ Answer(r)

-----------------------------------------------------------------------------
(* Freeing a request that was not answered answers it once.                *)
LEMMA FreeAnswersOnce ==
    ASSUME HInv, NEW r \in Requests, NEW status \in {"ok", "error"},
           FreeRequest(r, status), phase[r] # "freed"
    PROVE  /\ answers' \in [Requests -> Seq({"ok", "error"})]
           /\ phase' \in [Requests -> {"new", "dns", "link", "freed"}]
           /\ answers'[r] = <<status>> /\ Len(answers'[r]) = 1
           /\ phase'[r] = "freed"
           /\ \A q \in Requests \ {r} : answers'[q] = answers[q] /\ phase'[q] = phase[q]
  <1>1. answers[r] = <<>>
    BY DEF HInv, Once
  <1>2. Append(answers[r], status) = <<status>> /\ <<status>> \in Seq({"ok", "error"})
    BY <1>1
  <1>3. QED BY <1>2 DEF FreeRequest, HInv, TypeOK

(* A new value for the link of one request.                                *)
LEMMA LinkStep ==
    ASSUME HInv, NEW r \in Requests, NEW l \in Links, link' = [link EXCEPT ![r] = l]
    PROVE  /\ link' \in [Requests -> Links] /\ link'[r] = l
           /\ \A q \in Requests \ {r} : link'[q] = link[q]
  BY DEF HInv, TypeOK

(* espconn_disconnect posts the close of a link or leaves it as it is.     *)
LEMMA DisconnectStep ==
    ASSUME HInv, NEW r \in Requests, espconn_disconnect(r)
    PROVE  /\ link' \in [Requests -> Links]
           /\ link'[r] \in {link[r], "closing"}
           /\ Posted(r) => link'[r] = link[r]
           /\ link[r] = "none" => link'[r] = "none"
           /\ \A q \in Requests \ {r} : link'[q] = link[q]
  BY DEF HInv, TypeOK, espconn_disconnect, espconn_client_close, HasNode, InProgress,
         Posted, Links

(* The answer of the resolver: a link or an error.                         *)
LEMMA DnsKeeps ==
    ASSUME HInv, NEW r \in Requests, NEW found \in BOOLEAN,
           phase[r] \in {"new", "dns"}, http_dns_callback(r, found),
           UNCHANGED <<response, inFlight, length>>,
           postData' \in [Requests -> BOOLEAN]
    PROVE  HInv'
  <1> USE DEF response
  <1>l. link[r] = "none" /\ ~timer[r] /\ answers[r] = <<>>
    BY DEF HInv, Once
  <1>1. CASE found
    <2>1. PICK l \in {"wait", "lost"} : link' = [link EXCEPT ![r] = l]
      BY <1>1 DEF http_dns_callback, espconn_connect
    <2>2. /\ link' \in [Requests -> Links] /\ link'[r] = l
          /\ \A q \in Requests \ {r} : link'[q] = link[q]
      BY <2>1, LinkStep DEF Links
    <2>3. TypeOK'
      BY <1>1, <2>2 DEF http_dns_callback, espconn_connect, ArmedFor, HInv, TypeOK
    <2>4. ASSUME NEW q \in Requests
          PROVE  Once(q)' /\ Gapless(q)' /\ Ending(q)' /\ Answer(q)'
      <3>1. CASE q = r
        <4>1. answers'[r] = <<>> /\ phase'[r] = "link" /\ link'[r] = l
          BY <1>1, <1>l, <2>2 DEF http_dns_callback, HInv, TypeOK
        <4>2. Once(r)' /\ Gapless(r)' /\ Ending(r)'
          BY <4>1 DEF HInv, TypeOK, Once, Gapless, Ending
        <4>3. Answer(r)'
          <5>1. <<>> # <<"ok">>
            OBVIOUS
          <5>2. QED BY <4>1, <5>1 DEF Answer
        <4>4. QED BY <3>1, <4>2, <4>3
      <3>2. CASE q # r
        <4>1. /\ phase'[q] = phase[q] /\ timer'[q] = timer[q] /\ link'[q] = link[q]
              /\ answers'[q] = answers[q] /\ cut'[q] = cut[q]
          BY <1>1, <2>2, <3>2 DEF http_dns_callback, espconn_connect, HInv, TypeOK
        <4>2. QED BY <4>1 DEF HInv, Once, Gapless, Ending, Answer
      <3>3. QED BY <3>1, <3>2
    <2>5. QED BY <2>3, <2>4 DEF HInv
  <1>2. CASE ~found
    <2>1. FreeRequest(r, "error") /\ UNCHANGED <<timer, link, cut>>
      BY <1>2 DEF http_dns_callback
    <2>2. /\ answers' \in [Requests -> Seq({"ok", "error"})]
          /\ phase' \in [Requests -> {"new", "dns", "link", "freed"}]
          /\ answers'[r] = <<"error">> /\ Len(answers'[r]) = 1 /\ phase'[r] = "freed"
          /\ \A q \in Requests \ {r} : answers'[q] = answers[q] /\ phase'[q] = phase[q]
      BY <2>1, FreeAnswersOnce
    <2>3. TypeOK'
      BY <2>1, <2>2 DEF HInv, TypeOK
    <2>4. ASSUME NEW q \in Requests
          PROVE  Once(q)' /\ Gapless(q)' /\ Ending(q)' /\ Answer(q)'
      <3>1. CASE q = r
        <4>1. answers'[r] # <<"ok">>
          BY <2>2
        <4>2. QED BY <1>l, <2>1, <2>2, <3>1, <4>1 DEF HInv, Once, Gapless, Ending, Answer
      <3>2. CASE q # r
        BY <2>1, <2>2, <3>2 DEF HInv, Once, Gapless, Ending, Answer
      <3>3. QED BY <3>1, <3>2
    <2>5. QED BY <2>3, <2>4 DEF HInv
  <1>3. QED BY <1>1, <1>2

(* http_raw_request, with a resolver that answers at once or later.        *)
LEMMA RequestKeeps ==
    ASSUME HInv, NEW r \in Requests, NEW hasData \in BOOLEAN, http_raw_request(r, hasData)
    PROVE  HInv'
  <1>1. phase[r] = "new" /\ postData' \in [Requests -> BOOLEAN]
    BY DEF http_raw_request, HInv, TypeOK
  <1>2. CASE \E found \in BOOLEAN : http_dns_callback(r, found)
    BY <1>1, <1>2, DnsKeeps DEF http_raw_request
  <1>3. CASE phase' = [phase EXCEPT ![r] = "dns"] /\ UNCHANGED <<timer, link, answers, cut>>
    <2>1. TypeOK'
      BY <1>1, <1>3 DEF http_raw_request, response, HInv, TypeOK
    <2>2. ASSUME NEW q \in Requests
          PROVE  Once(q)' /\ Gapless(q)' /\ Ending(q)' /\ Answer(q)'
      BY <1>1, <1>3 DEF http_raw_request, response, HInv, TypeOK, Once, Gapless, Ending, Answer
    <2>3. QED BY <2>1, <2>2 DEF HInv
  <1>4. QED BY <1>2, <1>3 DEF http_raw_request

(* Connecting and acknowledgements touch neither timer nor answer.         *)
LEMMA SendKeeps ==
    ASSUME HInv, NEW r \in Requests, http_connect_callback(r) \/ http_send_callback(r)
    PROVE  HInv'
  <1> USE DEF request, response, NextToSend
  <1>1. TypeOK'
    BY DEF http_connect_callback, http_send_callback, HInv, TypeOK, Links
  <1>2. ASSUME NEW q \in Requests
        PROVE  Once(q)' /\ Gapless(q)' /\ Ending(q)' /\ Answer(q)'
    <2>1. /\ link'[q] = link[q] \/ (link[q] = "wait" /\ link'[q] = "up")
          /\ UNCHANGED <<phase, timer, answers, cut, buffer, discarded, arrived, length>>
      BY DEF http_connect_callback, http_send_callback, HInv, TypeOK
    <2>2. Once(q)' /\ Gapless(q)' /\ Answer(q)'
      BY <2>1 DEF HInv, Once, Gapless, Answer
    <2>3. Ending(q)'
      BY <2>1 DEF HInv, Ending
    <2>4. QED BY <2>2, <2>3
  <1>3. QED BY <1>1, <1>2 DEF HInv

(* A segment that fits is appended, in the order of arrival.               *)
LEMMA AppendKeepsOrder ==
    ASSUME NEW b \in Seq(Nat), NEW n \in Nat, Len(b) <= n,
           \A i \in 1 .. Len(b) : b[i] = n - Len(b) + i
    PROVE  /\ Append(b, n + 1) \in Seq(Nat)
           /\ Len(Append(b, n + 1)) = Len(b) + 1
           /\ \A i \in 1 .. Len(Append(b, n + 1)) :
                Append(b, n + 1)[i] = (n + 1) - Len(Append(b, n + 1)) + i
  <1>1. Append(b, n + 1) \in Seq(Nat) /\ Len(Append(b, n + 1)) = Len(b) + 1
    OBVIOUS
  <1>2. ASSUME NEW i \in 1 .. Len(b) + 1
        PROVE  Append(b, n + 1)[i] = (n + 1) - (Len(b) + 1) + i
    <2>1. CASE i = Len(b) + 1
      BY <2>1
    <2>2. CASE i # Len(b) + 1
      <3>1. i \in 1 .. Len(b)
        BY <2>2
      <3>2. Append(b, n + 1)[i] = b[i]
        BY <3>1
      <3>3. QED BY <3>1, <3>2
    <2>3. QED BY <2>1, <2>2
  <1>3. QED BY <1>1, <1>2

LEMMA ReceiveKeeps ==
    ASSUME HInv, NEW r \in Requests, http_receive_callback(r)
    PROVE  HInv'
  <1> USE DEF request
  <1>r. /\ link[r] = "up" /\ arrived' = [arrived EXCEPT ![r] = @ + 1]
        /\ arrived'[r] = arrived[r] + 1 /\ arrived[r] \in Nat
        /\ UNCHANGED <<phase, timer, postData, answers, cut, inFlight, length>>
    BY DEF http_receive_callback, HInv, TypeOK
  <1>p. phase[r] = "link" /\ answers[r] = <<>>
    BY <1>r DEF HInv, Once
  <1>l. arrived'[r] <= length'[r] /\ length' = length
    <2>1. arrived[r] < length[r] /\ length' = length
      BY DEF http_receive_callback
    <2>2. arrived[r] \in Nat /\ length[r] \in Nat
      BY HttpAssumption DEF HInv, TypeOK
    <2>3. QED BY <1>r, <2>1, <2>2
  <1>q. ASSUME NEW q \in Requests, q # r, buffer'[q] = buffer[q],
               discarded'[q] = discarded[q], link'[q] = link[q]
        PROVE  Once(q)' /\ Gapless(q)' /\ Ending(q)' /\ Answer(q)'
    BY <1>q, <1>r DEF HInv, TypeOK, Once, Gapless, Ending, Answer
  <1>o. ASSUME link'[r] # "none"
        PROVE  Answer(r)' /\ (link'[r] \in {"up", "closing"} => Once(r)')
    BY <1>r, <1>p DEF HInv, TypeOK, Once, Answer
  <1>1. CASE /\ Fits(r)
             /\ buffer' = [buffer EXCEPT ![r] = Append(@, arrived'[r])]
             /\ UNCHANGED <<discarded, link>>
    <2> DEFINE b == buffer[r]
    <2>1. buffer'[r] = Append(b, arrived[r] + 1) /\ b \in Seq(Nat) /\ Len(b) < BUFFER_SIZE_MAX
      BY <1>1, <1>r DEF HInv, TypeOK, Fits
    <2>2. Append(b, arrived[r] + 1) \in Seq(Nat) /\ Len(Append(b, arrived[r] + 1)) = Len(b) + 1
      BY <2>1, <1>r
    <2>3. TypeOK'
      <3>1. buffer' \in [Requests -> Seq(Nat)]
        BY <1>1, <2>1, <2>2 DEF HInv, TypeOK
      <3>2. ASSUME NEW q \in Requests PROVE Len(buffer'[q]) <= BUFFER_SIZE_MAX
        <4>1. CASE q = r
          BY <2>1, <2>2, <4>1, HttpAssumption
        <4>2. CASE q # r
          BY <1>1, <4>2 DEF HInv, TypeOK
        <4>3. QED BY <4>1, <4>2
      <3>3. QED BY <1>1, <1>r, <3>1, <3>2 DEF HInv, TypeOK
    <2>4. Gapless(r)'
      <3>1. CASE discarded[r]
        BY <1>1, <3>1 DEF Gapless
      <3>2. CASE ~discarded[r]
        <4>1. Len(b) <= arrived[r] /\ \A i \in 1 .. Len(b) : b[i] = arrived[r] - Len(b) + i
          BY <3>2 DEF HInv, Gapless
        <4>2. \A i \in 1 .. Len(buffer'[r]) :
                 buffer'[r][i] = arrived'[r] - Len(buffer'[r]) + i
          <5>1. \A i \in 1 .. Len(Append(b, arrived[r] + 1)) :
                   Append(b, arrived[r] + 1)[i]
                      = (arrived[r] + 1) - Len(Append(b, arrived[r] + 1)) + i
            <6> HIDE DEF b
            <6>1. QED BY <1>r, <2>1, <4>1, AppendKeepsOrder
          <5>2. QED BY <5>1, <1>r, <2>1
        <4>3. Len(buffer'[r]) <= arrived'[r]
          BY <1>r, <2>1, <2>2, <4>1
        <4>4. QED BY <4>2, <4>3 DEF Gapless
      <3>3. QED BY <3>1, <3>2
    <2>5. Once(r)' /\ Ending(r)' /\ Answer(r)'
      BY <1>1, <1>r, <1>o, <1>l DEF Ending
    <2>6. \A q \in Requests : Once(q)' /\ Gapless(q)' /\ Ending(q)' /\ Answer(q)'
      BY <1>1, <1>q, <2>4, <2>5 DEF HInv, TypeOK
    <2>7. QED BY <2>3, <2>6 DEF HInv
  <1>2. CASE /\ discarded' = [discarded EXCEPT ![r] = @ \/ Discards(r)]
             /\ espconn_disconnect(r)
             /\ UNCHANGED buffer
    <2>1. /\ link' \in [Requests -> Links] /\ link'[r] \in {"up", "closing"}
          /\ \A q \in Requests \ {r} : link'[q] = link[q]
      BY <1>2, <1>r, DisconnectStep
    <2>2. discarded'[r] = (discarded[r] \/ buffer[r] # <<>>)
      BY <1>2 DEF HInv, TypeOK, Discards
    <2>3. TypeOK'
      <3>1. discarded' \in [Requests -> BOOLEAN]
        BY <1>2 DEF HInv, TypeOK, Discards
      <3>2. QED BY <1>2, <1>r, <2>1, <3>1 DEF HInv, TypeOK
    <2>4. Gapless(r)'
      <3>1. CASE discarded'[r]
        BY <3>1 DEF Gapless
      <3>2. CASE ~discarded'[r]
        <4>1. buffer'[r] = <<>>
          BY <1>2, <2>2, <3>2
        <4>2. Len(buffer'[r]) = 0
          BY <4>1
        <4>3. QED BY <1>r, <4>2 DEF Gapless
      <3>3. QED BY <3>1, <3>2
    <2>5. Once(r)' /\ Ending(r)' /\ Answer(r)'
      BY <1>2, <1>r, <1>o, <1>l, <2>1, <2>2 DEF Ending
    <2>6. \A q \in Requests : Once(q)' /\ Gapless(q)' /\ Ending(q)' /\ Answer(q)'
      BY <1>2, <1>q, <2>1, <2>4, <2>5 DEF HInv, TypeOK
    <2>7. QED BY <2>3, <2>6 DEF HInv
  <1>3. QED BY <1>1, <1>2 DEF http_receive_callback

(* The posted event frees the request and answers it.                      *)
LEMMA TaskKeeps ==
    ASSUME HInv, NEW r \in Requests, espconn_Task(r)
    PROVE  HInv'
  <1> USE DEF response
  <1>1. /\ Posted(r) /\ link' = [link EXCEPT ![r] = "none"]
        /\ timer' = [timer EXCEPT ![r] = FALSE]
        /\ FreeRequest(r, Status(r)) /\ UNCHANGED <<buffer, discarded, arrived, length, cut>>
    BY DEF espconn_Task, Disarmed
  <1>2. phase[r] = "link" /\ Status(r) \in {"ok", "error"}
    BY <1>1 DEF HInv, Once, Posted, Status
  <1>3. /\ answers' \in [Requests -> Seq({"ok", "error"})]
        /\ phase' \in [Requests -> {"new", "dns", "link", "freed"}]
        /\ answers'[r] = <<Status(r)>> /\ Len(answers'[r]) = 1 /\ phase'[r] = "freed"
        /\ \A q \in Requests \ {r} : answers'[q] = answers[q] /\ phase'[q] = phase[q]
    BY <1>1, <1>2, FreeAnswersOnce
  <1>4. TypeOK'
    BY <1>1, <1>3 DEF espconn_Task, HInv, TypeOK, Links
  <1>5. ASSUME NEW q \in Requests
        PROVE  Once(q)' /\ Gapless(q)' /\ Ending(q)' /\ Answer(q)'
    <2>1. CASE q = r
      <3>1. Once(r)' /\ Gapless(r)' /\ Ending(r)'
        BY <1>1, <1>3 DEF HInv, TypeOK, Once, Gapless, Ending
      <3>2. Answer(r)'
        <4> SUFFICES ASSUME answers'[r] = <<"ok">>
                     PROVE  /\ ~discarded[r] /\ buffer[r] # <<>> /\ buffer[r][1] = 1
                            /\ cut[r] \/ arrived[r] = length[r]
          BY <1>1 DEF Answer
        <4>1. Status(r) = "ok"
          BY <1>3
        <4>2. ~discarded[r] /\ buffer[r] # <<>> /\ Head(buffer[r]) = 1
          BY <4>1 DEF Status
        <4>3. buffer[r][1] = 1
          BY <4>2 DEF HInv, TypeOK
        <4>4. cut[r] \/ arrived[r] = length[r]
          BY <1>1, <4>2 DEF HInv, Ending, Posted
        <4>5. QED BY <4>2, <4>3, <4>4
      <3>3. QED BY <2>1, <3>1, <3>2
    <2>2. CASE q # r
      BY <1>1, <1>3, <2>2 DEF HInv, TypeOK, Once, Gapless, Ending, Answer
    <2>3. QED BY <2>1, <2>2
  <1>6. QED BY <1>4, <1>5 DEF HInv

(* The timeout, the server's close and a failure post events at most.      *)
LEMMA EndingKeeps ==
    ASSUME HInv, NEW r \in Requests,
           http_timeout_callback(r) \/ PeerCloses(r) \/ espconn_client_err(r)
    PROVE  HInv'
  <1> USE DEF response
  <1>1. /\ link' \in [Requests -> Links]
        /\ \A q \in Requests \ {r} : link'[q] = link[q] /\ timer'[q] = timer[q] /\ cut'[q] = cut[q]
        /\ timer' \in [Requests -> BOOLEAN] /\ cut' \in [Requests -> BOOLEAN]
        /\ UNCHANGED <<phase, postData, answers, buffer, discarded, arrived, inFlight, length>>
    <2>1. CASE http_timeout_callback(r)
      <3>1. /\ link' \in [Requests -> Links]
            /\ \A q \in Requests \ {r} : link'[q] = link[q]
        BY <2>1, DisconnectStep DEF http_timeout_callback
      <3>2. QED BY <2>1, <3>1 DEF http_timeout_callback, HInv, TypeOK, Posted
    <2>2. CASE PeerCloses(r)
      BY <2>2 DEF PeerCloses, espconn_client_close, HInv, TypeOK, Links
    <2>3. CASE espconn_client_err(r)
      BY <2>3 DEF espconn_client_err, HInv, TypeOK, Links
    <2>4. QED BY <2>1, <2>2, <2>3
  <1>2. TypeOK'
    BY <1>1 DEF HInv, TypeOK
  <1>3. Once(r)' /\ Ending(r)' /\ (cut[r] => cut'[r])
    <2>1. CASE http_timeout_callback(r)
      <3>1. /\ link'[r] \in {link[r], "closing"} /\ (Posted(r) => link'[r] = link[r])
            /\ (link[r] = "none" => link'[r] = "none")
        BY <2>1, DisconnectStep DEF http_timeout_callback
      <3>2. cut'[r] = (cut[r] \/ ~Posted(r)) /\ ~timer'[r] /\ phase[r] = "link"
        BY <2>1 DEF http_timeout_callback, HInv, TypeOK, Once
      <3>3. QED BY <1>1, <3>1, <3>2 DEF HInv, Once, Ending, Posted
    <2>2. CASE PeerCloses(r)
      <3>1. /\ link[r] = "up" /\ timer' = timer
            /\ link'[r] \in {"closing", "half"}
            /\ cut'[r] = (cut[r] \/ arrived[r] < length[r])
        BY <2>2 DEF PeerCloses, espconn_client_close, HInv, TypeOK
      <3>2. cut'[r] \/ arrived[r] = length[r]
        <4>1. arrived[r] \in Nat /\ length[r] \in Nat /\ arrived[r] <= length[r]
          BY HttpAssumption DEF HInv, TypeOK, Ending
        <4>2. CASE arrived[r] = length[r]
          BY <4>2
        <4>3. CASE arrived[r] # length[r]
          <5>1. arrived[r] < length[r]
            BY <4>1, <4>3
          <5>2. QED BY <3>1, <5>1
        <4>4. QED BY <4>2, <4>3
      <3>3. QED BY <1>1, <3>1, <3>2 DEF HInv, Once, Ending
    <2>3. CASE espconn_client_err(r)
      <3>1. link[r] # "none" /\ timer' = timer /\ link'[r] = "failed" /\ cut'[r]
        BY <2>3 DEF espconn_client_err, HInv, TypeOK
      <3>2. QED BY <1>1, <3>1 DEF HInv, Once, Ending
    <2>4. QED BY <2>1, <2>2, <2>3
  <1>4. ASSUME NEW q \in Requests
        PROVE  Once(q)' /\ Gapless(q)' /\ Ending(q)' /\ Answer(q)'
    <2>1. CASE q = r
      BY <1>1, <1>3, <2>1 DEF HInv, Gapless, Answer
    <2>2. CASE q # r
      BY <1>1, <2>2 DEF HInv, Once, Gapless, Ending, Answer
    <2>3. QED BY <2>1, <2>2
  <1>5. QED BY <1>2, <1>4 DEF HInv

-----------------------------------------------------------------------------
LEMMA InitHolds == Init => HInv
  <1> SUFFICES ASSUME Init PROVE HInv
    OBVIOUS
  <1>1. TypeOK
    BY HttpAssumption DEF Init, TypeOK, Links
  <1>2. ASSUME NEW r \in Requests PROVE Once(r) /\ Gapless(r) /\ Ending(r) /\ Answer(r)
    <2>1. /\ answers[r] = <<>> /\ link[r] = "none" /\ buffer[r] = <<>> /\ arrived[r] = 0
          /\ phase[r] = "new" /\ ~timer[r] /\ length[r] \in Nat
      BY HttpAssumption DEF Init
    <2>2. Len(buffer[r]) = 0 /\ answers[r] # <<"ok">> /\ arrived[r] <= length[r]
      BY <2>1
    <2>3. QED BY <2>1, <2>2 DEF Once, Gapless, Ending, Answer
  <1>3. QED BY <1>1, <1>2 DEF HInv

LEMMA StepKeeps == HInv /\ [Next]_vars => HInv'
  <1> SUFFICES ASSUME HInv, [Next]_vars PROVE HInv'
    OBVIOUS
  <1>1. CASE Next
    <2>1. PICK r \in Requests :
            \/ \E hasData \in BOOLEAN : http_raw_request(r, hasData)
            \/ ResolverAnswers(r)
            \/ http_connect_callback(r) \/ http_send_callback(r) \/ http_receive_callback(r)
            \/ espconn_Task(r) \/ http_timeout_callback(r)
            \/ PeerCloses(r) \/ espconn_client_err(r)
      BY <1>1 DEF Next
    <2>2. CASE ResolverAnswers(r)
      <3>1. postData' \in [Requests -> BOOLEAN]
        BY <2>2 DEF ResolverAnswers, HInv, TypeOK
      <3>2. QED BY <2>2, <3>1, DnsKeeps DEF ResolverAnswers
    <2>3. QED BY <2>1, <2>2, RequestKeeps, SendKeeps, ReceiveKeeps, TaskKeeps, EndingKeeps
  <1>2. CASE UNCHANGED vars
    BY <1>2 DEF vars, request, response, HInv, TypeOK, Once, Gapless, Ending, Answer
  <1>3. QED BY <1>1, <1>2

(* Whatever the network does, every request is answered at most once,      *)
(* and after its answer nothing refers to it: types and FreedOnce.         *)
THEOREM RequestsAreFreedOnce == Spec => []TypeOK /\ []FreedOnce
  <1>1. HInv => TypeOK /\ FreedOnce
    <2>1. Len(<<>>) = 0
      OBVIOUS
    <2>2. ASSUME HInv, NEW r \in Requests
          PROVE  /\ Len(answers[r]) = IF phase[r] = "freed" THEN 1 ELSE 0
                 /\ phase[r] = "freed" => ~timer[r] /\ link[r] = "none"
                 /\ phase[r] # "link" => link[r] = "none"
      <3>1. CASE phase[r] = "freed"
        BY <2>2, <3>1 DEF HInv, Once
      <3>2. CASE phase[r] # "freed"
        BY <2>1, <2>2, <3>2 DEF HInv, Once
      <3>3. QED BY <3>1, <3>2
    <2>3. QED BY <2>2 DEF HInv, FreedOnce
  <1>2. QED BY <1>1, InitHolds, StepKeeps, PTL DEF Spec

(* What the application gets as a response starts at its start, has no     *)
(* hole, and is all of it unless the request failed or timed out.          *)
THEOREM ResponsesAreGenuine == Spec => []NoHoles /\ []WholeUnlessCut
  <1>1. HInv => NoHoles /\ WholeUnlessCut
    <2> SUFFICES ASSUME HInv, NEW r \in Requests,
                        "ok" \in {answers[r][i] : i \in DOMAIN answers[r]}
                 PROVE  /\ \A i \in DOMAIN buffer[r] : buffer[r][i] = i
                        /\ Len(buffer[r]) = length[r] \/ cut[r]
      BY DEF NoHoles, WholeUnlessCut
    <2>1. answers[r] = <<"ok">>
      <3>1. PICK i \in DOMAIN answers[r] : answers[r][i] = "ok"
        OBVIOUS
      <3>2. answers[r] \in Seq({"ok", "error"}) /\ Len(answers[r]) = 1
        BY <3>1 DEF HInv, TypeOK, Once
      <3>3. QED BY <3>1, <3>2
    <2>2. /\ ~discarded[r] /\ buffer[r] # <<>> /\ buffer[r][1] = 1
          /\ cut[r] \/ arrived[r] = length[r]
      BY <2>1 DEF HInv, Answer
    <2>3. /\ Len(buffer[r]) <= arrived[r]
          /\ \A i \in 1 .. Len(buffer[r]) : buffer[r][i] = arrived[r] - Len(buffer[r]) + i
      BY <2>2 DEF HInv, Gapless
    <2>4. buffer[r] \in Seq(Nat) /\ Len(buffer[r]) \in Nat /\ Len(buffer[r]) >= 1 /\ arrived[r] \in Nat
      BY <2>2 DEF HInv, TypeOK
    <2>5. arrived[r] = Len(buffer[r])
      <3>1. buffer[r][1] = arrived[r] - Len(buffer[r]) + 1
        <4>1. 1 \in 1 .. Len(buffer[r])
          BY <2>4
        <4>2. QED BY <2>3, <4>1
      <3>2. QED BY <2>2, <2>4, <3>1
    <2>6. \A i \in DOMAIN buffer[r] : buffer[r][i] = i
      BY <2>3, <2>4, <2>5
    <2>7. QED BY <2>2, <2>5, <2>6
  <1>2. QED BY <1>1, InitHolds, StepKeeps, PTL DEF Spec

(* A response passed on is all of what was sent, unless it was cut.        *)
THEOREM ResponsesAreWhole == Spec => []WholeUnlessCut
  BY ResponsesAreGenuine, PTL

(* Types alone: whatever arrives in whatever pieces, no buffer grows beyond *)
(* BUFFER_SIZE_MAX.                                                        *)
THEOREM BuffersAreBounded == Spec => []TypeOK
  BY RequestsAreFreedOnce, PTL
=============================================================================
