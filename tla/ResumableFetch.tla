--------------------------- MODULE ResumableFetch ---------------------------
(***************************************************************************)
(* fetchResumable(): a GET that goes on after a cut body with a Range      *)
(* request for the rest, and hands the body to a sink.  The server may     *)
(* drop the connection at any byte, ignore the range, answer with another  *)
(* one, redirect, or replace the resource between two attempts; the sink   *)
(* may stop, and the caller may abort.  It is called with startOffset at   *)
(* what the sink holds, and again as long as it does not complete.         *)
(*                                                                         *)
(* Bytes are counted in units.  The sink is the sequence of the units it   *)
(* was given, each with its version of the resource and its place there.   *)
(***************************************************************************)
EXTENDS Naturals, Sequences

CONSTANTS
  Version,        \* of the resource
  Size,           \* of each version
  kMaxRedirects, kMaxStalled, kMaxAttempts

ASSUME FetchAssumption ==
  /\ Version # {} /\ Size \in [Version -> Nat]
  /\ kMaxRedirects \in Nat /\ kMaxStalled \in Nat \ {0} /\ kMaxAttempts \in Nat \ {0}

VARIABLES
  server,                        \* the version it serves
  sink,
  step,                          \* where the fetch stands
  bytes, total,                  \* result.bytes, result.total
  attempt, stalled, redirects,
  attemptStart, responseEnd,
  answer,                        \* the response that is being read
  result,
  mixes                          \* a 206 was taken when total was not known
fetchVars == <<server, sink, step, bytes, total, attempt, stalled, redirects, attemptStart, responseEnd, answer, result,
               mixes>>
counterVars == <<attempt, stalled, redirects>>

Framing == {"length", "chunked", "close"}
(* The body runs from `at` up to `stop`; `first`, `last` and `size` are    *)
(* what its headers say.                                                   *)
Answer ==
  [status : {200, 206}, framing : Framing, version : Version, at : Nat, stop : Nat, first : Nat, last : Nat,
   length : BOOLEAN]
FetchTypeOK ==
  /\ server \in Version /\ sink \in Seq(Version \X Nat)
  /\ step \in {"request", "headers", "body", "done"}
  /\ bytes \in Nat /\ total \in Nat /\ attemptStart \in Nat /\ responseEnd \in Nat
  /\ attempt \in 0..kMaxAttempts /\ stalled \in 0..kMaxStalled /\ redirects \in 0..kMaxRedirects
  /\ answer \in Answer /\ result \in {"none", "complete", "stopped", "aborted", "failed"} /\ mixes \in BOOLEAN

NoAnswer ==
  [status |-> 200, framing |-> "length", version |-> CHOOSE v \in Version : TRUE, at |-> 0, stop |-> 0, first |-> 0,
   last |-> 0, length |-> TRUE]
Starts(held) ==
  /\ step' = "request" /\ bytes' = held /\ total' = 0 /\ attempt' = 0 /\ stalled' = 0 /\ redirects' = 0
  /\ attemptStart' = held /\ responseEnd' = 0 /\ result' = "none" /\ mixes' = FALSE /\ answer' = NoAnswer

FetchInit ==
  /\ server \in Version /\ sink = <<>> /\ step = "done" /\ bytes = 0 /\ total = 0
  /\ attempt = 0 /\ stalled = 0 /\ redirects = 0 /\ attemptStart = 0 /\ responseEnd = 0
  /\ answer = NoAnswer /\ result = "none" /\ mixes = FALSE

-----------------------------------------------------------------------------
Returns(outcome) == step' = "done" /\ result' = outcome

(* GET: a bad URL, no connection, or a status that is not a success.       *)
Refused ==
  /\ step = "request" /\ Returns("failed")
  /\ UNCHANGED <<server, sink, bytes, total, counterVars, attemptStart, responseEnd, answer, mixes>>
Redirected ==
  /\ step = "request"
  /\ IF redirects >= kMaxRedirects THEN Returns("failed") /\ UNCHANGED redirects
     ELSE redirects' = redirects + 1 /\ UNCHANGED <<step, result>>
  /\ UNCHANGED <<server, sink, bytes, total, attempt, stalled, attemptStart, responseEnd, answer, mixes>>
AnswersWhole ==
  /\ step = "request" /\ step' = "headers"
  /\ \E f \in Framing :
       answer' = [NoAnswer EXCEPT !.version = server, !.framing = f, !.stop = Size[server], !.last = Size[server]]
  /\ UNCHANGED <<server, sink, bytes, total, counterVars, attemptStart, responseEnd, result, mixes>>
(* With a Range header: any range of the resource, whether it was asked    *)
(* for or not, with a body that need not be as long.                       *)
AnswersRange ==
  /\ step = "request" /\ step' = "headers" /\ bytes > 0
  /\ \E f \in Framing, first, last, stop \in 0..Size[server] :
       /\ first < last /\ first <= stop
       /\ answer' = [status |-> 206, framing |-> f, version |-> server, at |-> first, stop |-> stop, first |-> first,
                     last |-> last, length |-> (f = "length" => stop = last)]
  /\ UNCHANGED <<server, sink, bytes, total, counterVars, attemptStart, responseEnd, result, mixes>>

MutRangeFits == answer.first = attemptStart /\ answer.length

(* beginResponse(): before the first byte of the body, or without one.     *)
RangeFits ==
  /\ answer.first = attemptStart /\ answer.length
  /\ total \in {0, Size[answer.version]}
BeginRange ==
  /\ step = "headers" /\ answer.status = 206
  /\ IF RangeFits
     THEN step' = "body" /\ responseEnd' = answer.last /\ total' = Size[answer.version] /\ UNCHANGED result
          /\ mixes' = (mixes \/ total = 0)
     ELSE Returns("failed") /\ UNCHANGED <<responseEnd, total, mixes>>
  /\ UNCHANGED <<server, sink, bytes, counterVars, attemptStart, answer>>
TakesWhole ==
  /\ total' = IF answer.framing = "length" THEN answer.stop ELSE 0
  /\ responseEnd' = total' /\ step' = "body"
BeginWhole ==
  /\ step = "headers" /\ answer.status = 200 /\ attemptStart = 0 /\ TakesWhole
  /\ UNCHANGED <<server, sink, bytes, counterVars, attemptStart, answer, result, mixes>>
BeginAgain ==
  /\ step = "headers" /\ answer.status = 200 /\ attemptStart > 0 /\ TakesWhole
  /\ sink' = <<>> /\ bytes' = 0 /\ attemptStart' = 0 /\ mixes' = FALSE
  /\ UNCHANGED <<server, counterVars, answer, result>>
RewindStops ==
  /\ step = "headers" /\ answer.status = 200 /\ attemptStart > 0 /\ Returns("stopped")
  /\ UNCHANGED <<server, sink, bytes, total, counterVars, attemptStart, responseEnd, answer, mixes>>

(* The body, unit by unit.                                                 *)
Overruns == responseEnd # 0 /\ bytes + 1 > responseEnd
Receive ==
  /\ step = "body" /\ answer.at < answer.stop /\ ~Overruns
  /\ sink' = Append(sink, <<answer.version, answer.at>>) /\ bytes' = bytes + 1
  /\ answer' = [answer EXCEPT !.at = @ + 1]
  /\ UNCHANGED <<server, step, total, counterVars, attemptStart, responseEnd, result, mixes>>
ReceiveStops ==
  /\ step = "body" /\ answer.at < answer.stop
  /\ Returns(IF Overruns THEN "failed" ELSE "stopped")
  /\ UNCHANGED <<server, sink, bytes, total, counterVars, attemptStart, responseEnd, answer, mixes>>

MutNextAttempt ==
  /\ stalled' = IF bytes > attemptStart THEN 0 ELSE stalled + 1
  /\ IF attempt < kMaxAttempts /\ stalled' < kMaxStalled THEN step' = "request" /\ UNCHANGED result
     ELSE Returns("failed")
  /\ attemptStart' = bytes /\ responseEnd' = 0 /\ answer' = NoAnswer
  /\ UNCHANGED <<server, sink, bytes, total, attempt, redirects, mixes>>

(* The end of an attempt that earned another one.                          *)
NextAttempt ==
  /\ attempt' = attempt + 1 /\ stalled' = IF bytes > attemptStart THEN 0 ELSE stalled + 1
  /\ IF attempt' < kMaxAttempts /\ stalled' < kMaxStalled THEN step' = "request" /\ UNCHANGED result
     ELSE Returns("failed")
  /\ attemptStart' = bytes /\ responseEnd' = 0 /\ answer' = NoAnswer
  /\ UNCHANGED <<server, sink, bytes, total, redirects, mixes>>
(* The client takes the close of the connection for the end of a body with *)
(* no other framing, and so a body that was cut for a whole one.           *)
BodyEnds == answer.at = answer.stop \/ answer.framing = "close"
BodyComplete ==
  /\ step = "body" /\ BodyEnds
  /\ Returns(IF responseEnd # 0 /\ bytes # responseEnd THEN "failed" ELSE "complete")
  /\ responseEnd = 0 \/ bytes # responseEnd \/ answer.status # 206 \/ bytes = total
  /\ UNCHANGED <<server, sink, bytes, total, counterVars, attemptStart, responseEnd, answer, mixes>>
RangeComplete == step = "body" /\ BodyEnds /\ answer.status = 206 /\ bytes = responseEnd /\ bytes # total /\ NextAttempt
BodyCut == step = "body" /\ (answer.at < answer.stop \/ answer.framing # "length") /\ NextAttempt
Aborted ==
  /\ step # "done" /\ Returns("aborted")
  /\ UNCHANGED <<server, sink, bytes, total, counterVars, attemptStart, responseEnd, answer, mixes>>

(* The caller, and whoever keeps the resource.                             *)
FetchCall == step = "done" /\ result # "complete" /\ Starts(bytes) /\ UNCHANGED <<server, sink>>
Replaced ==
  /\ server' \in Version \ {server}
  /\ UNCHANGED <<sink, step, bytes, total, counterVars, attemptStart, responseEnd, answer, result, mixes>>

Transport ==
  \/ Refused \/ Redirected \/ AnswersWhole \/ AnswersRange
  \/ BeginRange \/ BeginWhole \/ BeginAgain \/ RewindStops
  \/ Receive \/ ReceiveStops \/ BodyComplete \/ RangeComplete \/ BodyCut \/ Aborted
FetchNext == Transport \/ FetchCall \/ Replaced
(* Every wait of the client has a timeout.                                 *)
FetchFairness == WF_fetchVars(Transport)
FetchSpec == FetchInit /\ [][FetchNext]_fetchVars /\ FetchFairness

-----------------------------------------------------------------------------
(* Whatever was cut, repeated or redirected, the sink holds the units in   *)
(* their order, none twice and none left out, and as many as are counted.  *)
(* A fetch that says it is complete has the resource: whole, unless it was *)
(* close-delimited, and of one version, unless a range was taken before    *)
(* the size was known or the versions are of one size.                     *)
NoGapNoRepeat == bytes = Len(sink) /\ \A i \in 1..bytes : sink[i][2] = i - 1
CloseDelimited == answer.status = 200 /\ answer.framing = "close"
FetchIsWhole ==
  /\ NoGapNoRepeat
  /\ result = "complete" =>
       /\ CloseDelimited \/ bytes = Size[answer.version]
       /\ \A i \in 1..bytes : sink[i][1] = answer.version \/ mixes \/ Size[sink[i][1]] = Size[answer.version]

(* What bounds a call: each of its steps is the last, or spends an attempt *)
(* or a redirect and gives none of the other back, or moves on within the  *)
(* one response.                                                           *)
MovesOn ==
  \/ <<step, step'>> \in {<<"request", "headers">>, <<"headers", "body">>}
  \/ /\ step = "body" /\ step' = "body"
     /\ answer'.stop = answer.stop /\ answer'.at > answer.at /\ answer'.at <= answer.stop
Spends ==
  \/ step' = "done"
  \/ attempt' > attempt /\ redirects' = redirects
  \/ attempt' = attempt /\ redirects' > redirects
  \/ attempt' = attempt /\ redirects' = redirects /\ MovesOn
FetchDescends == [][step # "done" /\ server' = server => Spends]_fetchVars

(* A fetch ends, whatever the server does.                                 *)
FetchEnds == step # "done" ~> step = "done"
=============================================================================
