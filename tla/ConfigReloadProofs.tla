------------------------- MODULE ConfigReloadProofs -------------------------
(***************************************************************************)
(* Theorems about the configuration manager of the legacy layer, for every *)
(* lifetime of a token, every timeout and every number of attempts.        *)
(***************************************************************************)
EXTENDS ConfigReload, TLAPS

-----------------------------------------------------------------------------
(***************************************************************************)
(* The configuration.                                                      *)
(***************************************************************************)

(* Between the runs, and in a run until something has been read, the digest *)
(* is that of the last usable content; then that content is what was read,  *)
(* unless it is not usable.                                                 *)
CurrentInv ==
  /\ reply \in Content \cup {"refused", Nothing}
  /\ source \in Content
  /\ IF digest = Nothing THEN config.mappings = NoData /\ config.user = "none"
     ELSE config = Configured(digest)
  /\ pc # "compare" => latest = digest
  /\ pc = "compare" => IF Parses(read) THEN latest = read ELSE latest = digest

LEMMA NothingParses == /\ ~Parses(Nothing) /\ ~Parses("refused") /\ ~Parses(Garbage)
                       /\ Parses(Default)
BY ContentAssumption DEF Parses

(* What comes of an answer is usable exactly if the answer is, and the same *)
(* then.                                                                    *)
LEMMA UnpackedIsRead ==
  ASSUME NEW r \in Content \cup {"refused", Nothing}
  PROVE  IF Parses(r) THEN Parses(Unpacked(r)) /\ Unpacked(r) = r ELSE ~Parses(Unpacked(r))
BY NothingParses DEF Unpacked

LEMMA CurrentStep == CurrentInv /\ [Next]_vars => CurrentInv'
<1> SUFFICES ASSUME CurrentInv, [Next]_vars PROVE CurrentInv'
  OBVIOUS
<1> USE DEF CurrentInv
<1>1. CASE UNCHANGED vars
  BY <1>1 DEF vars
<1>2. CASE LoadFile
  <2>1. \E c \in Content \cup {Nothing} : Got(c)
    BY <1>2 DEF LoadFile, Content
  <2> QED BY <1>2, <2>1 DEF LoadFile, Got, fetchVars
<1>3. CASE LoadUrl \/ Issue \/ CacheToken \/ CacheRefusal \/ NoTokenForNow \/ Send \/ Revoke \/ Tick
  BY <1>3 DEF LoadUrl, Issue, CacheToken, CacheRefusal, NoTokenForNow, Send, Revoke, Tick,
              fetchVars
<1>4. CASE Serve
  BY <1>4 DEF Serve
<1>5. CASE Receive
  BY <1>5, UnpackedIsRead DEF Receive, Content
<1>6. CASE AttemptFails
  BY <1>6, NothingParses DEF AttemptFails, Got, Content
<1>7. CASE Compare
  <2>1. pc = "compare" /\ pc' = "idle" /\ UNCHANGED <<latest, reply, source>>
    BY <1>7 DEF Compare, fetchVars
  <2>2. CASE IsNew(read) /\ Parses(read) /\ config' = Configured(read) /\ digest' = read
    BY <2>1, <2>2, NothingParses
  <2>3. CASE ~(IsNew(read) /\ Parses(read)) /\ UNCHANGED <<config, digest>>
    BY <2>1, <2>3 DEF IsNew
  <2> QED BY <1>7, <2>2, <2>3 DEF Compare
<1>8. CASE \E c \in Content : Publish(c)
  BY <1>8 DEF Publish, fetchVars
<1> QED BY <1>1, <1>2, <1>3, <1>4, <1>5, <1>6, <1>7, <1>8 DEF Next, JobStep, FaultStep

(* Whatever fails in between, the configuration between two runs is the one *)
(* of the last usable content that was read.                                *)
THEOREM LatestUsableAlways == Spec => []LatestUsable
<1>1. Init => CurrentInv
  BY DEF Init, CurrentInv
<1>2. CurrentInv => LatestUsable
  BY DEF CurrentInv, LatestUsable
<1> QED BY <1>1, <1>2, CurrentStep, PTL DEF Spec

-----------------------------------------------------------------------------
(***************************************************************************)
(* The token.                                                              *)
(***************************************************************************)

(* The longest that a token can have run out before attempt a, if it had    *)
(* not when the cache was looked at or the service was asked.               *)
Slack(a) == AskTime + a * FetchTime

(* A cached token outlives its end in the cache but for the time its answer *)
(* took; the token of a request, but for that and the attempts so far.      *)
TokenInv ==
  /\ token \in Token /\ bearer \in Token /\ grant \in Token
  /\ until \in -1 .. Lifetime /\ attempt \in 0 .. Retries
  /\ pc = "ask" => wait \in 0 .. AskTime
  /\ pc = "fetch" => wait \in 0 .. FetchTime
  /\ pc # "ask" => grant.kind # "good"
  /\ pc = "ask" /\ grant.kind = "good" => grant.left >= Lifetime - (AskTime - wait)
  /\ token.kind = "good" /\ until >= 0 => token.left >= until - AskTime
  /\ pc = "send" /\ bearer.kind = "good" => bearer.left >= -Slack(attempt)
  /\ pc = "fetch" /\ bearer.kind = "good" =>
       bearer.left >= -Slack(attempt) - (FetchTime - wait)

LEMMA SlackGrows ==
  ASSUME NEW a \in 0 .. Retries
  PROVE  /\ Slack(a) \in Nat /\ Slack(a) >= AskTime
         /\ Slack(a + 1) = Slack(a) + FetchTime
         /\ Slack(a) + FetchTime =< -LongAgo - 1
         /\ LongAgo \in Int /\ LongAgo < -AskTime
<1>1. a * FetchTime \in Nat /\ (a + 1) * FetchTime = a * FetchTime + FetchTime
  BY TimeAssumption
<1>2. (Retries + 1) * FetchTime \in Nat
  BY TimeAssumption
<1>3. (a + 1) * FetchTime =< (Retries + 1) * FetchTime
  <2>1. (Retries - a) * FetchTime >= 0
    BY TimeAssumption
  <2>2. (Retries + 1) * FetchTime = (a + 1) * FetchTime + (Retries - a) * FetchTime
    BY TimeAssumption
  <2> QED BY <1>1, <1>2, <2>1, <2>2, TimeAssumption
<1> QED BY <1>1, <1>2, <1>3, TimeAssumption DEF Slack, LongAgo

(* A token that has not run out for longer than that loses one tick.        *)
LEMMA AgedToken ==
  ASSUME NEW t \in Token
  PROVE  /\ Aged(t) \in Token /\ Aged(t).kind = t.kind
         /\ t.kind = "good" /\ t.left > LongAgo => Aged(t).left = t.left - 1
<1>1. LongAgo \in Int /\ Lifetime \in Nat /\ LongAgo =< 0
  BY TimeAssumption, SlackGrows, 0 \in 0 .. Retries
<1>2. t.left \in LongAgo .. Lifetime
  BY DEF Token
<1> DEFINE l == IF t.kind = "none" \/ t.left = LongAgo THEN t.left ELSE t.left - 1
<1>3. l \in LongAgo .. Lifetime
  BY <1>1, <1>2
<1>4. Aged(t) = [t EXCEPT !.left = l]
  BY DEF Aged
<1>5. t.kind = "good" /\ t.left > LongAgo => l = t.left - 1
  BY <1>1, <1>2
<1> HIDE DEF l
<1> QED BY <1>3, <1>4, <1>5 DEF Token

LEMMA RevokedToken ==
  ASSUME NEW t \in Token
  PROVE  Revoked(t) \in Token /\ Revoked(t).kind # "good"
BY DEF Revoked, Token

LEMMA TokenInit == Init => TokenInv
<1> SUFFICES ASSUME Init PROVE TokenInv
  OBVIOUS
<1>1. 0 \in LongAgo .. Lifetime
  BY TimeAssumption, SlackGrows, 0 \in 0 .. Retries
<1>2. NoToken \in Token /\ NoToken.kind = "none"
  BY <1>1 DEF NoToken, Token
<1> QED BY <1>2, TimeAssumption DEF Init, TokenInv

LEMMA TokenStep == TokenInv /\ [Next]_vars => TokenInv'
<1> SUFFICES ASSUME TokenInv, [Next]_vars PROVE TokenInv'
  OBVIOUS
<1>a. /\ Slack(attempt) \in Nat /\ Slack(attempt) >= AskTime
      /\ Slack(attempt + 1) = Slack(attempt) + FetchTime
      /\ Slack(attempt) + FetchTime =< -LongAgo - 1
      /\ LongAgo \in Int /\ LongAgo < -AskTime
  BY SlackGrows DEF TokenInv
<1>b. /\ token.left \in LongAgo .. Lifetime /\ bearer.left \in LongAgo .. Lifetime
      /\ grant.left \in LongAgo .. Lifetime
  BY DEF TokenInv, Token
<1>c. NoToken \in Token /\ NoToken.kind = "none"
  <2>1. 0 \in LongAgo .. Lifetime
    BY <1>a, TimeAssumption
  <2> QED BY <2>1 DEF NoToken, Token
<1>1. CASE UNCHANGED vars
  BY <1>1 DEF vars, TokenInv, Slack
<1>2. CASE LoadFile \/ Receive \/ Compare
  <2>1. /\ UNCHANGED <<tokenVars, wait, attempt>>
        /\ pc' \in {"idle", "compare"} /\ pc # "ask"
    BY <1>2 DEF LoadFile, Receive, Compare, Got, fetchVars
  <2> QED BY <2>1 DEF TokenInv, tokenVars
<1>3. CASE LoadUrl
  <2>1. /\ attempt' = 0 /\ UNCHANGED <<token, until, grant>> /\ pc = "idle"
        /\ \/ pc' = "ask" /\ wait' = AskTime /\ UNCHANGED bearer
           \/ /\ pc' = "send" /\ UNCHANGED wait
              /\ \/ bearer' = token /\ until >= 0
                 \/ bearer' = NoToken
    BY <1>3 DEF LoadUrl, Cached
  <2>2. Slack(0) \in Nat /\ Slack(0) >= AskTime
    BY SlackGrows, TimeAssumption
  <2>3. 0 \in 0 .. Retries /\ AskTime \in Nat
    BY TimeAssumption
  <2>4. CASE pc' = "ask"
    BY <2>1, <2>3, <2>4 DEF TokenInv
  <2>5. CASE pc' = "send" /\ bearer' = token /\ until >= 0
    <3>1. token.kind = "good" => token.left >= -Slack(0)
      BY <1>b, <2>2, <2>3, <2>5 DEF TokenInv
    <3> QED BY <2>1, <2>3, <2>5, <3>1 DEF TokenInv
  <2>6. CASE pc' = "send" /\ bearer' = NoToken
    BY <1>c, <2>1, <2>3, <2>6 DEF TokenInv
  <2> QED BY <2>1, <2>4, <2>5, <2>6
<1>4. CASE Issue
  <2>1. /\ grant' = [kind |-> "good", left |-> Lifetime] /\ pc = "ask" /\ pc' = pc
        /\ UNCHANGED <<token, until, bearer, wait, attempt>>
    BY <1>4 DEF Issue, fetchVars
  <2>2. grant' \in Token /\ grant'.left = Lifetime
    BY <1>a, <2>1, TimeAssumption DEF Token
  <2> QED BY <2>1, <2>2, TimeAssumption DEF TokenInv
<1>5. CASE CacheToken
  <2>1. /\ pc = "ask" /\ pc' = "send" /\ token' = grant /\ bearer' = grant
        /\ until' = Lifetime /\ grant' = NoToken /\ UNCHANGED attempt
    BY <1>5 DEF CacheToken, fetchVars
  <2>2. grant.kind = "good" => grant.left >= Lifetime - AskTime
    BY <1>b, <2>1, TimeAssumption DEF TokenInv
  <2>3. Slack(attempt)' = Slack(attempt)
    BY <2>1 DEF Slack
  <2>4. grant.kind = "good" => grant.left >= -Slack(attempt)
    BY <1>a, <1>b, <2>2, TimeAssumption
  <2> QED BY <1>c, <2>1, <2>2, <2>3, <2>4, TimeAssumption DEF TokenInv
<1>6. CASE CacheRefusal
  <2> DEFINE t == [kind |-> "empty", left |-> 0]
  <2>1. /\ pc = "ask" /\ pc' = "send" /\ token' = t /\ bearer' = t /\ until' = 0
        /\ grant = NoToken /\ UNCHANGED <<grant, attempt>>
    BY <1>6 DEF CacheRefusal, fetchVars
  <2>2. t \in Token /\ t.kind = "empty"
    BY <1>a, TimeAssumption DEF Token
  <2> HIDE DEF t
  <2> QED BY <1>c, <2>1, <2>2, TimeAssumption DEF TokenInv
<1>7. CASE NoTokenForNow
  BY <1>7, <1>c DEF NoTokenForNow, TokenInv, fetchVars
<1>8. CASE Send
  <2>1. /\ pc = "send" /\ pc' = "fetch" /\ wait' = FetchTime
        /\ UNCHANGED <<tokenVars, attempt>>
    BY <1>8 DEF Send
  <2>2. Slack(attempt)' = Slack(attempt)
    BY <2>1 DEF Slack
  <2> QED BY <1>a, <1>b, <2>1, <2>2, TimeAssumption DEF TokenInv, tokenVars
<1>9. CASE Serve \/ \E c \in Content : Publish(c)
  BY <1>9 DEF Serve, Publish, TokenInv, tokenVars, fetchVars, Slack
<1>10. CASE AttemptFails
  <2>1. /\ pc = "fetch" /\ UNCHANGED <<tokenVars, wait>>
        /\ \/ attempt < Retries /\ attempt' = attempt + 1 /\ pc' = "send"
           \/ pc' \in {"idle", "compare"} /\ UNCHANGED attempt
    BY <1>10 DEF AttemptFails, Got
  <2>2. CASE attempt < Retries /\ attempt' = attempt + 1 /\ pc' = "send"
    <3>1. Slack(attempt)' = Slack(attempt) + FetchTime /\ attempt' \in 0 .. Retries
      BY <1>a, <2>2, TimeAssumption DEF TokenInv, Slack
    <3>2. bearer.kind = "good" => bearer.left >= -(Slack(attempt) + FetchTime)
      BY <1>a, <1>b, <2>1, TimeAssumption DEF TokenInv
    <3> QED BY <2>1, <2>2, <3>1, <3>2 DEF TokenInv, tokenVars
  <2>3. CASE pc' \in {"idle", "compare"} /\ UNCHANGED attempt
    BY <2>1, <2>3 DEF TokenInv, tokenVars
  <2> QED BY <2>1, <2>2, <2>3
<1>11. CASE Revoke
  <2>1. /\ token' = Revoked(token) /\ bearer' = Revoked(bearer) /\ grant' = Revoked(grant)
        /\ UNCHANGED <<pc, until, wait, attempt>>
    BY <1>11 DEF Revoke, fetchVars
  <2>2. /\ token' \in Token /\ token'.kind # "good" /\ bearer' \in Token
        /\ bearer'.kind # "good" /\ grant' \in Token /\ grant'.kind # "good"
    BY <2>1, RevokedToken DEF TokenInv
  <2> QED BY <2>1, <2>2 DEF TokenInv
<1>12. CASE Tick
  <2>1. /\ token' = Aged(token) /\ bearer' = Aged(bearer) /\ grant' = Aged(grant)
        /\ UNCHANGED <<pc, attempt>>
        /\ until' = IF until = -1 THEN -1 ELSE until - 1
        /\ \/ pc = "idle" /\ UNCHANGED wait
           \/ pc \in {"ask", "fetch"} /\ wait > 0 /\ wait' = wait - 1
    BY <1>12 DEF Tick
  <2>2. /\ token' \in Token /\ token'.kind = token.kind
        /\ token.kind = "good" /\ token.left > LongAgo => token'.left = token.left - 1
    BY <2>1, AgedToken DEF TokenInv
  <2>3. /\ bearer' \in Token /\ bearer'.kind = bearer.kind
        /\ bearer.kind = "good" /\ bearer.left > LongAgo => bearer'.left = bearer.left - 1
    BY <2>1, AgedToken DEF TokenInv
  <2>4. /\ grant' \in Token /\ grant'.kind = grant.kind
        /\ grant.kind = "good" /\ grant.left > LongAgo => grant'.left = grant.left - 1
    BY <2>1, AgedToken DEF TokenInv
  <2>5. Slack(attempt)' = Slack(attempt)
    BY <2>1 DEF Slack
  <2>6. until' \in -1 .. Lifetime
    BY <2>1, TimeAssumption DEF TokenInv
  <2>7. /\ pc = "ask" => wait' \in 0 .. AskTime
        /\ pc = "fetch" => wait' \in 0 .. FetchTime
    BY <2>1, TimeAssumption DEF TokenInv
  <2>8. pc = "ask" /\ grant.kind = "good" => grant'.left >= Lifetime - (AskTime - wait')
    BY <1>a, <1>b, <2>1, <2>4, TimeAssumption DEF TokenInv
  <2>9. token.kind = "good" /\ until' >= 0 => token'.left >= until' - AskTime
    BY <1>a, <1>b, <2>1, <2>2, TimeAssumption DEF TokenInv
  <2>10. pc = "fetch" /\ bearer.kind = "good" =>
           bearer'.left >= -Slack(attempt) - (FetchTime - wait')
    BY <1>a, <1>b, <2>1, <2>3, TimeAssumption DEF TokenInv
  <2>11. pc # "send"
    BY <2>1
  <2> QED BY <2>1, <2>2, <2>3, <2>4, <2>5, <2>6, <2>7, <2>8, <2>9, <2>10, <2>11 DEF TokenInv
<1> QED BY <1>1, <1>2, <1>3, <1>4, <1>5, <1>6, <1>7, <1>8, <1>9, <1>10, <1>11, <1>12
        DEF Next, JobStep, FaultStep

(* A token that has run out is presented no longer than the calls made with *)
(* it may take: the cache ends with the token, up to the time of the answer *)
(* that brought it and of the attempts.                                     *)
THEOREM NotLongRunOutAlways == Spec => []NotLongRunOut
<1>1. ASSUME TokenInv PROVE NotLongRunOut
  <2> SUFFICES ASSUME pc \in {"send", "fetch"}, bearer.kind = "good"
               PROVE  bearer.left > LongAgo
    BY DEF NotLongRunOut
  <2>1. /\ Slack(attempt) \in Nat /\ Slack(attempt) + FetchTime =< -LongAgo - 1
        /\ LongAgo \in Int /\ bearer.left \in LongAgo .. Lifetime
    BY <1>1, SlackGrows DEF TokenInv, Token
  <2>2. bearer.left >= -Slack(attempt) - FetchTime
    BY <1>1, <2>1, TimeAssumption DEF TokenInv
  <2> QED BY <2>1, <2>2, TimeAssumption
<1> QED BY <1>1, TokenInit, TokenStep, PTL DEF Spec

-----------------------------------------------------------------------------

(* The types of what has no part in either invariant. *)
RestOK ==
  /\ location \in {"file", "url", "other"} /\ provider \in BOOLEAN
  /\ source \in Content /\ due \in BOOLEAN
  /\ pc \in {"idle", "ask", "send", "fetch", "compare"}
  /\ wait \in 0 .. AskTime + FetchTime
  /\ reply \in Content \cup {"refused", Nothing}
  /\ read \in Content \cup {Nothing}
  /\ digest \in {c \in Content : Parses(c)} \cup {Nothing}
  /\ config \in [mappings : Usable \cup {Default, NoData},
                 user : {"own", "environment", "none"}]
  /\ faults \in 0 .. MaxFaults /\ changes \in 0 .. MaxChanges
  /\ latest \in Content \cup {Nothing}

LEMMA RestStep == RestOK /\ [Next]_vars => RestOK'
<1> SUFFICES ASSUME RestOK, [Next]_vars PROVE RestOK'
  OBVIOUS
<1>a. ASSUME Fault PROVE faults' \in 0 .. MaxFaults
  BY <1>a, TimeAssumption DEF Fault, RestOK
<1>b. ASSUME NEW c \in Content \cup {Nothing}, Got(c)
      PROVE  /\ read' \in Content \cup {Nothing} /\ latest' \in Content \cup {Nothing}
             /\ pc' = "compare"
  BY <1>b DEF Got, RestOK
<1>1. CASE UNCHANGED vars
  BY <1>1 DEF vars, RestOK
<1>2. CASE LoadFile
  <2>1. \E c \in Content \cup {Nothing} : Got(c)
    BY <1>2 DEF LoadFile, Content, RestOK
  <2>2. faults' \in 0 .. MaxFaults
    BY <1>a, <1>2 DEF LoadFile, RestOK
  <2> QED BY <1>2, <1>b, <2>1, <2>2 DEF LoadFile, RestOK, fetchVars
<1>3. CASE LoadUrl
  <2>1. wait' \in 0 .. AskTime + FetchTime
    BY <1>3, TimeAssumption DEF LoadUrl, RestOK
  <2> QED BY <1>3, <2>1 DEF LoadUrl, RestOK
<1>4. CASE Issue \/ CacheToken \/ Serve
  BY <1>4 DEF Issue, CacheToken, Serve, RestOK, fetchVars
<1>5. CASE CacheRefusal \/ NoTokenForNow \/ Revoke
  BY <1>5, <1>a DEF CacheRefusal, NoTokenForNow, Revoke, RestOK, fetchVars
<1>6. CASE Send
  BY <1>6, TimeAssumption DEF Send, RestOK
<1>7. CASE Receive
  <2>1. reply \in Content \cup {"refused"}
    BY <1>7 DEF Receive, RestOK
  <2>2. Unpacked(reply) \in Content \cup {Nothing}
    BY <2>1 DEF Unpacked
  <2>3. latest' \in Content \cup {Nothing}
    BY <1>7, <2>1, NothingParses DEF Receive, RestOK
  <2> QED BY <1>7, <2>2, <2>3 DEF Receive, RestOK
<1>8. CASE AttemptFails
  <2>1. /\ read' \in Content \cup {Nothing} /\ latest' \in Content \cup {Nothing}
        /\ pc' \in {"send", "idle", "compare"}
    BY <1>8, <1>b DEF AttemptFails, RestOK
  <2>2. /\ reply' = Nothing /\ faults' \in 0 .. MaxFaults
        /\ UNCHANGED <<location, provider, source, due, wait, digest, config, changes>>
    BY <1>8, <1>a DEF AttemptFails
  <2> QED BY <2>1, <2>2 DEF RestOK
<1>9. CASE Compare
  <2>1. /\ config' \in [mappings : Usable \cup {Default, NoData},
                       user : {"own", "environment", "none"}]
        /\ digest' \in {c \in Content : Parses(c)} \cup {Nothing}
    <3>1. CASE UNCHANGED <<config, digest>>
      BY <3>1 DEF RestOK
    <3>2. CASE Parses(read) /\ config' = Configured(read) /\ digest' = read
      <4>1. read \in Usable \cup {Default, NoData} /\ read \in Content
        BY <3>2 DEF Parses, Content
      <4> QED BY <3>2, <4>1 DEF Configured
    <3> QED BY <1>9, <3>1, <3>2 DEF Compare
  <2> QED BY <1>9, <2>1 DEF Compare, RestOK, fetchVars
<1>10. CASE Tick
  <2>1. wait' \in 0 .. AskTime + FetchTime
    BY <1>10, TimeAssumption DEF Tick, RestOK
  <2> QED BY <1>10, <2>1 DEF Tick, RestOK
<1>11. CASE \E c \in Content : Publish(c)
  <2>1. changes' \in 0 .. MaxChanges
    BY <1>11, TimeAssumption DEF Publish, RestOK
  <2> QED BY <1>11, <2>1 DEF Publish, RestOK, fetchVars
<1> QED BY <1>1, <1>2, <1>3, <1>4, <1>5, <1>6, <1>7, <1>8, <1>9, <1>10, <1>11
        DEF Next, JobStep, FaultStep

(* The variables keep to their types: only usable contents get a digest,    *)
(* and no timer leaves its bounds.                                          *)
THEOREM TypeCorrect == Spec => []TypeOK
<1>1. Init => RestOK
  BY TimeAssumption DEF Init, RestOK, Content
<1>2. TokenInv /\ RestOK => TypeOK
  BY DEF TokenInv, RestOK, TypeOK
<1> QED BY <1>1, <1>2, TokenInit, TokenStep, RestStep, PTL DEF Spec
=============================================================================
