---------------------------- MODULE ConfigReload ----------------------------
(***************************************************************************)
(* How the legacy layer keeps its configuration current                    *)
(* (src/internal/legacy/conf/manager.go) and the token it fetches it with  *)
(* (src/internal/legacy/security/auth0.go).                                *)
(*                                                                         *)
(* A job that runs again and again reads a file, or asks an endpoint and   *)
(* presents a token.  The token is cached until the lifetime the token     *)
(* service gave it is over, counted from the arrival of the answer.  The   *)
(* endpoint is asked Retries more times if an attempt fails; the token is  *)
(* the same in all of them.  What is read replaces the configuration if    *)
(* its digest is new and it can be parsed.                                 *)
(*                                                                         *)
(* jobrunner runs one instance of the job at a time, so nobody else uses   *)
(* the cache.  Time passes while a call is under way and between two runs; *)
(* LegacyRead has the requests that read the configuration meanwhile.      *)
(*                                                                         *)
(* External: the token service, the endpoint or the disk, and heimdall     *)
(* (which retries after an error or a 5xx and without a pause).            *)
(***************************************************************************)
EXTENDS Integers, FiniteSets

CONSTANTS
  Usable,      \* configurations that parse
  WithUser,    \* those of them that name a user
  Default,     \* the configuration of resources/default-config.json
  NoData,      \* valid JSON without any of the fields
  Garbage,     \* not JSON, or a file that is only half written
  Nothing,     \* no bytes, no reply
  Lifetime,    \* expires_in of a token, in ticks
  AskTime,     \* timeout of the token service, in ticks
  FetchTime,   \* timeout of one attempt at the endpoint, in ticks
  Retries,     \* retry count of the attempts
  MaxFaults,   \* bound: errors, refusals and timeouts of the two services
  MaxChanges   \* bound: changes of what the endpoint or the file holds

ASSUME TimeAssumption == /\ Lifetime \in Nat /\ AskTime \in Nat /\ FetchTime \in Nat
                         /\ Retries \in Nat /\ MaxFaults \in Nat /\ MaxChanges \in Nat
ASSUME ContentAssumption == /\ WithUser \subseteq Usable
                            /\ Default \notin Usable
                            /\ {NoData, Garbage, Nothing} \cap (Usable \cup {Default}) = {}
                            /\ NoData # Garbage /\ Nothing \notin {NoData, Garbage}
                            /\ "refused" \notin
                                 Usable \cup {Default, NoData, Garbage, Nothing}

Content == Usable \cup {Default, NoData, Garbage}

(* What a token that has run out still counts down to. *)
LongAgo == -(AskTime + (Retries + 1) * FetchTime) - 1

Token == [kind : {"none", "empty", "good", "revoked"}, left : LongAgo .. Lifetime]
NoToken == [kind |-> "none", left |-> 0]

VARIABLES
  location,  \* CONFIG_LOCATION: a file, an endpoint, or anything else
  provider,  \* a token provider is configured, and the endpoint wants a token
  source,    \* what the endpoint or the file holds
  due,       \* time has passed since the last run began: the job is run again
  pc,        \* where the job is
  wait,      \* what is left of the timeout of the call under way
  token,     \* auth0.cache.token
  until,     \* what is left of auth0.cache.until
  bearer,    \* the token of the request under way
  grant,     \* the token that the service has issued and that is on its way
  attempt,   \* how many attempts at the endpoint came before this one
  reply,     \* what the endpoint has answered and is on its way
  read,      \* configContent
  digest,    \* State.Digest
  config,    \* Datalayer
  faults,    \* bound: faults so far
  changes,   \* bound: changes so far
  latest     \* history: the last usable content that was read

tokenVars == <<token, until, bearer, grant>>
fetchVars == <<wait, attempt, reply>>
vars == <<location, provider, source, due, pc, wait, token, until, bearer, grant, attempt,
          reply, read, digest, config, faults, changes, latest>>

-----------------------------------------------------------------------------
(***************************************************************************)
(* Contents.                                                               *)
(***************************************************************************)

(* Does parse accept it?  (Mutant: what is not JSON is accepted.) *)
ParsesAlways(c) == c # Nothing
Parses(c) == c \in Usable \cup {Default, NoData}

(* What parse, setUser and mapColumns make of it: the mappings, and the     *)
(* user of the environment unless the content names one.                    *)
Configured(c) == [mappings |-> c, user |-> IF c \in WithUser THEN "own" ELSE "environment"]

(* What loadUrl and unpackContent make of an answer: the data of a 200, and *)
(* no bytes if the status is another one or the body is not JSON.           *)
(* (Mutant: the status is not looked at, and an error body has no data.) *)
UnpackedAnyStatus(r) == IF r = "refused" THEN NoData ELSE IF r = Garbage THEN Nothing ELSE r
Unpacked(r) == IF r \in {"refused", Garbage} THEN Nothing ELSE r

(* Is the content another one than that of the configuration?               *)
(* (Mutant: once there is a configuration it is kept.) *)
IsNewFirst(c) == digest = Nothing
IsNew(c) == digest # c

Init ==
  /\ location \in {"file", "url", "other"}
  /\ provider \in BOOLEAN
  /\ source \in Content
  /\ due = TRUE /\ pc = "idle" /\ wait = 0 /\ attempt = 0
  /\ token = NoToken /\ until = -1 /\ bearer = NoToken /\ grant = NoToken
  /\ reply = Nothing /\ read = Nothing
  /\ digest = Nothing
  /\ config = [mappings |-> NoData, user |-> "none"]
  /\ faults = 0 /\ changes = 0
  /\ latest = Nothing

Fault == faults < MaxFaults /\ faults' = faults + 1

(* c was read. *)
Got(c) ==
  /\ read' = c
  /\ latest' = IF Parses(c) THEN c ELSE latest
  /\ pc' = "compare"

-----------------------------------------------------------------------------
(***************************************************************************)
(* A run of the job.                                                       *)
(***************************************************************************)

(* load of a file: what it holds, or no bytes if it cannot be opened; of a  *)
(* location that is neither file nor URL: the default configuration.        *)
LoadFile ==
  /\ pc = "idle" /\ due /\ location # "url"
  /\ due' = FALSE
  /\ \/ /\ Got(IF location = "file" THEN source ELSE Default)
        /\ UNCHANGED faults
     \/ Got(Nothing) /\ Fault
  /\ UNCHANGED <<location, provider, source, tokenVars, fetchVars, digest, config, changes>>

(* Is the cached token good enough?  (Mutant: its end is not looked at.) *)
CachedForever == token.kind # "none"
Cached == token.kind # "none" /\ until >= 0

(* load of an endpoint: with the cached token, with none, or after asking   *)
(* for one.                                                                 *)
LoadUrl ==
  /\ pc = "idle" /\ due /\ location = "url"
  /\ due' = FALSE
  /\ attempt' = 0
  /\ \/ /\ provider /\ ~Cached
        /\ pc' = "ask" /\ wait' = AskTime
        /\ UNCHANGED bearer
     \/ /\ provider => Cached
        /\ pc' = "send"
        /\ bearer' = IF provider THEN token ELSE NoToken
        /\ UNCHANGED wait
  /\ UNCHANGED <<location, provider, source, token, until, grant, reply, read, digest,
                 config, faults, changes, latest>>

(* The token service issues a token; its life begins here. *)
Issue ==
  /\ pc = "ask" /\ grant = NoToken
  /\ grant' = [kind |-> "good", left |-> Lifetime]
  /\ UNCHANGED <<location, provider, source, due, pc, token, until, bearer, fetchVars, read,
                 digest, config, faults, changes, latest>>

(* The answer arrives and is cached; its end is counted from now. *)
CacheToken ==
  /\ pc = "ask" /\ grant # NoToken
  /\ token' = grant /\ until' = Lifetime
  /\ bearer' = grant /\ grant' = NoToken
  /\ pc' = "send"
  /\ UNCHANGED <<location, provider, source, due, fetchVars, read, digest, config, faults,
                 changes, latest>>

(* The answer is an error in JSON.  The status is not looked at: the token  *)
(* without characters and without lifetime is cached and presented.         *)
CacheRefusal ==
  /\ pc = "ask" /\ grant = NoToken
  /\ Fault
  /\ token' = [kind |-> "empty", left |-> 0] /\ until' = 0
  /\ bearer' = token' /\ UNCHANGED grant
  /\ pc' = "send"
  /\ UNCHANGED <<location, provider, source, due, fetchVars, read, digest, config, changes, latest>>

(* No answer, an answer too late, or one that is not JSON: loadUrl logs it  *)
(* and goes on without a token; the cache stays.                            *)
NoTokenForNow ==
  /\ pc = "ask"
  /\ Fault
  /\ bearer' = NoToken /\ grant' = NoToken
  /\ pc' = "send"
  /\ UNCHANGED <<location, provider, source, due, token, until, fetchVars, read, digest, config,
                 changes, latest>>

(* One attempt at the endpoint. *)
Send ==
  /\ pc = "send"
  /\ pc' = "fetch" /\ wait' = FetchTime
  /\ UNCHANGED <<location, provider, source, due, tokenVars, attempt, reply, read, digest, config,
                 faults, changes, latest>>

Accepted == provider => bearer.kind = "good" /\ bearer.left >= 0

(* The endpoint looks at the token and answers with what it holds. *)
Serve ==
  /\ pc = "fetch" /\ reply = Nothing
  /\ reply' = IF Accepted THEN source ELSE "refused"
  /\ UNCHANGED <<location, provider, source, due, pc, tokenVars, wait, attempt, read, digest,
                 config, faults, changes, latest>>

Receive ==
  /\ pc = "fetch" /\ reply # Nothing
  /\ read' = Unpacked(reply)
  /\ latest' = IF Parses(reply) THEN reply ELSE latest
  /\ pc' = "compare"
  /\ reply' = Nothing
  /\ UNCHANGED <<location, provider, source, due, tokenVars, wait, attempt, digest, config,
                 faults, changes>>

(* The attempt fails: an error, a timeout or a 5xx is tried again.  load    *)
(* returns if it was the last attempt or if the body broke off, and goes on *)
(* without bytes if the last answer was a 5xx.                              *)
AttemptFails ==
  /\ pc = "fetch"
  /\ Fault
  /\ reply' = Nothing
  /\ \/ /\ attempt < Retries
        /\ attempt' = attempt + 1
        /\ pc' = "send"
        /\ UNCHANGED <<read, latest>>
     \/ /\ pc' = "idle"
        /\ UNCHANGED <<attempt, read, latest>>
     \/ /\ attempt = Retries
        /\ Got(Nothing)
        /\ UNCHANGED attempt
  /\ UNCHANGED <<location, provider, source, due, tokenVars, wait, digest, config, changes>>

(* The rest of load: the configuration is replaced if the digest is new and *)
(* the content parses; otherwise both stay.                                 *)
Compare ==
  /\ pc = "compare"
  /\ \/ /\ IsNew(read) /\ Parses(read)
        /\ config' = Configured(read) /\ digest' = read
     \/ /\ ~(IsNew(read) /\ Parses(read))
        /\ UNCHANGED <<config, digest>>
  /\ pc' = "idle" /\ read' = Nothing
  /\ UNCHANGED <<location, provider, source, due, tokenVars, fetchVars, faults, changes, latest>>

-----------------------------------------------------------------------------
(***************************************************************************)
(* What happens meanwhile.                                                 *)
(***************************************************************************)

(* Somebody changes the configuration at its source. *)
Publish(c) ==
  /\ changes < MaxChanges /\ changes' = changes + 1
  /\ c # source /\ source' = c
  /\ UNCHANGED <<location, provider, due, pc, tokenVars, fetchVars, read, digest, config,
                 faults, latest>>

(* The tokens issued so far are taken back. *)
Revoked(t) == IF t.kind = "good" THEN [t EXCEPT !.kind = "revoked"] ELSE t

Revoke ==
  /\ "good" \in {token.kind, bearer.kind, grant.kind}
  /\ Fault
  /\ token' = Revoked(token) /\ bearer' = Revoked(bearer) /\ grant' = Revoked(grant)
  /\ UNCHANGED <<location, provider, source, due, pc, until, fetchVars, read, digest, config,
                 changes, latest>>

Aged(t) == [t EXCEPT !.left = IF t.kind = "none" \/ @ = LongAgo THEN @ ELSE @ - 1]

(* Time passes between two runs and during a call, until its timeout. *)
Tick ==
  /\ \/ pc = "idle" /\ UNCHANGED wait
     \/ pc \in {"ask", "fetch"} /\ wait > 0 /\ wait' = wait - 1
  /\ due' = TRUE
  /\ token' = Aged(token) /\ bearer' = Aged(bearer) /\ grant' = Aged(grant)
  /\ until' = IF until = -1 THEN -1 ELSE until - 1
  /\ UNCHANGED <<location, provider, source, pc, attempt, reply, read, digest, config,
                 faults, changes, latest>>

(* What goes on of its own accord: the job is run again and again, and a    *)
(* service answers unless there is a fault.                                 *)
JobStep == \/ LoadFile \/ LoadUrl \/ Issue \/ CacheToken \/ Send \/ Serve \/ Receive \/ Compare

FaultStep == CacheRefusal \/ NoTokenForNow \/ AttemptFails \/ Revoke

Next == JobStep \/ FaultStep \/ Tick \/ \E c \in Content : Publish(c)

Spec == Init /\ [][Next]_vars

FairSpec == Spec /\ WF_vars(JobStep) /\ WF_vars(Tick)

-----------------------------------------------------------------------------
(***************************************************************************)
(* Properties.                                                             *)
(***************************************************************************)

(* The values the variables range over. *)
TypeOK ==
  /\ location \in {"file", "url", "other"} /\ provider \in BOOLEAN
  /\ source \in Content /\ due \in BOOLEAN
  /\ pc \in {"idle", "ask", "send", "fetch", "compare"}
  /\ wait \in 0 .. AskTime + FetchTime
  /\ {token, bearer, grant} \subseteq Token /\ until \in -1 .. Lifetime
  /\ attempt \in 0 .. Retries
  /\ reply \in Content \cup {"refused", Nothing}
  /\ read \in Content \cup {Nothing}
  /\ digest \in {c \in Content : Parses(c)} \cup {Nothing}
  /\ config \in [mappings : Usable \cup {Default, NoData},
                 user : {"own", "environment", "none"}]
  /\ faults \in 0 .. MaxFaults /\ changes \in 0 .. MaxChanges
  /\ latest \in Content \cup {Nothing}

(* Whatever fails in between, a token, an attempt, a status, a parse, the   *)
(* configuration between two runs is the one of the last usable content     *)
(* that was read (manager.go:113-123): it is neither lost nor stale.  A     *)
(* usable content without data is one too: it empties the configuration.    *)
LatestUsable ==
  pc = "idle" =>
    IF latest = Nothing THEN config.mappings = NoData /\ config.user = "none"
    ELSE config = Configured(latest)

(* "The cache validity equals the token validity" (auth0.go:58), up to the  *)
(* race its comment grants: a token that has run out is presented no longer *)
(* than the calls made with it may take, that is the timeout of the token   *)
(* service and those of all attempts.                                       *)
NotLongRunOut ==
  pc \in {"send", "fetch"} /\ bearer.kind = "good" => bearer.left > LongAgo

(* Once the source stays as it is and its content is usable, the            *)
(* configuration becomes that content and stays it: no cached token, no     *)
(* failed attempt and no earlier content keeps the layer from it for good   *)
(* (faults are bounded, so they end).                                       *)
BecomesCurrent ==
  \A c \in Usable :
    <>[](source = c) /\ location # "other" => <>[](config = Configured(c))
=============================================================================
