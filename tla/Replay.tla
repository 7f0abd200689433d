------------------------------- MODULE Replay -------------------------------
(***************************************************************************)
(* Replay of signed reasoning (harness/replay.go) in the run that uses it: *)
(* which of the details a history holds go out with a request, which       *)
(* provider the request is pinned to, and what a 400 to it leads to.       *)
(*                                                                         *)
(* A message is whether it holds details and which provider it names; tool *)
(* and user messages hold none.  origin is the provider that really signed *)
(* the details: the gateway reports it or reports nothing.  RunLoop has    *)
(* the rest of the loop, so caps, tools and the inbox are absent here.     *)
(***************************************************************************)
EXTENDS Integers, SequencesExt, Slices

CONSTANTS
  Providers,    \* the names of upstream providers
  Routings,     \* the values Config.Provider may have
  Histories,    \* the conversations a run may be seeded with
  MaxTurns      \* Config.MaxTurns

Unreported == ""

Message == [details : BOOLEAN, provider : Providers \cup {Unreported},
            origin : Providers \cup {Unreported}]

Plain == [details |-> FALSE, provider |-> Unreported, origin |-> Unreported]

\* An entry of the routing object: absent (or null), a list of names, or
\* something else.
Entry == [kind : {"absent", "list", "bad"}, names : Seq(Providers)]

Absent       == [kind |-> "absent", names |-> <<>>]
ListOf(names) == [kind |-> "list", names |-> names]

\* The routing value; object is FALSE when it is not an object, and an absent
\* or null value is an object without entries.
Routing == [object : BOOLEAN, only : Entry, ignore : Entry, order : Entry]

\* What is known of a history from an earlier run: details come with the
\* provider that signed them, or with none.
Honest(ms) == \A i \in DOMAIN ms : ms[i].details => ms[i].provider \in {ms[i].origin, Unreported}

ASSUME ProviderAssumption == Unreported \notin Providers
ASSUME RoutingAssumption  == Routings \subseteq Routing
ASSUME HistoryAssumption  == /\ Histories \subseteq Seq(Message)
                             /\ \A h \in Histories : Honest(h)
ASSUME TurnAssumption     == MaxTurns \in Nat

VARIABLES
  cfg,       \* [replay, interactive, routing]
  msgs,
  turns,
  pc,        \* "idle", "sent" (a request is out), "judge" (a reply is looked at), "over"
  call,      \* what the request is: "turn", "grace", "gracePlain", "summary"
  request,   \* the request that is out, or was last: [messages, routing, pin]
  sends,     \* requests made for this call of sendModel
  total,     \* requests made for this turn, or for the grace turn
  reply

vars == <<cfg, msgs, turns, pc, call, request, sends, total, reply>>

----------------------------------------------------------------------------
(* replay.go.                                                              *)

WithoutReasoning(ms) == [i \in DOMAIN ms |-> [ms[i] EXCEPT !.details = FALSE]]

Carries(ms) == \E i \in DOMAIN ms : ms[i].details

\* Faulty: the oldest details decide.
ReplayPinOldest(ms) ==
  IF Carries(ms) THEN ms[Min({i \in DOMAIN ms : ms[i].details})].provider ELSE Unreported

\* The provider of the newest details, if it is known.
ReplayPin(ms) ==
  IF Carries(ms) THEN ms[Max({i \in DOMAIN ms : ms[i].details})].provider ELSE Unreported

\* Faulty: a list that names nobody counts as no list.
AdmitsEmptyOnly(routing, pin) ==
  /\ routing.object
  /\ routing.only.kind # "bad"
  /\ routing.only.names = <<>> \/ pin \in Range(routing.only.names)
  /\ routing.ignore.kind # "bad" /\ pin \notin Range(routing.ignore.names)
  /\ routing.order.kind # "bad"

\* pinProvider's conditions.
Admits(routing, pin) ==
  /\ routing.object
  /\ \/ routing.only.kind = "absent"
     \/ routing.only.kind = "list" /\ pin \in Range(routing.only.names)
  /\ routing.ignore.kind # "bad" /\ pin \notin Range(routing.ignore.names)
  /\ routing.order.kind # "bad"

\* The names but pin, in their order.
Others(names, pin) == Picked(names, {k \in DOMAIN names : names[k] # pin})

Pinned(routing, pin) ==
  [routing EXCEPT !.order = ListOf(<<pin>> \o Others(routing.order.names, pin))]

\* Faulty: details whose provider is not known stay.
WithoutNamedForeign(ms, pin) ==
  [i \in DOMAIN ms |->
     [ms[i] EXCEPT !.details = @ /\ ms[i].provider \in {pin, Unreported}]]

WithoutForeignReasoning(ms, pin) ==
  [i \in DOMAIN ms |-> [ms[i] EXCEPT !.details = @ /\ ms[i].provider = pin]]

\* replayRequest.
ReplayRequest(ms) ==
  LET pin == ReplayPin(ms)
  IN  IF pin # Unreported /\ Admits(cfg.routing, pin)
      THEN [messages |-> WithoutForeignReasoning(ms, pin),
            routing |-> Pinned(cfg.routing, pin), pin |-> pin]
      ELSE [messages |-> ms, routing |-> cfg.routing, pin |-> Unreported]

Clean(ms) == [messages |-> WithoutReasoning(ms), routing |-> cfg.routing, pin |-> Unreported]

\* The messages sendModel is called with.
Asked == IF call = "turn" THEN msgs ELSE Append(msgs, Plain)

----------------------------------------------------------------------------
(* The steps of a run.                                                     *)

\* sendModel's first request.
Send(kind, ms) ==
  /\ pc' = "sent" /\ call' = kind
  /\ request' = ReplayRequest(ms)
  /\ sends' = 1
  /\ UNCHANGED <<cfg, msgs, reply>>

StartTurn ==
  /\ pc = "idle"
  /\ turns < MaxTurns \* also a bound: an interactive run has no turn limit
  /\ turns' = turns + 1
  /\ total' = 1
  /\ Send("turn", msgs)

StartGrace ==
  /\ pc = "idle" /\ turns = MaxTurns /\ ~cfg.interactive
  /\ total' = 1
  /\ Send("grace", Append(msgs, Plain))
  /\ UNCHANGED turns

\* The endpoint answers 400, and sendModel tries once more.
MayDrop == sends = 1 /\ (request.pin # Unreported \/ Carries(request.messages))

\* Faulty: the retry keeps the pinned request.
DropDetailsOnly ==
  /\ pc = "sent" /\ call # "summary" /\ MayDrop
  /\ request' = [request EXCEPT !.messages = WithoutReasoning(request.messages)]
  /\ sends' = sends + 1 /\ total' = total + 1
  /\ UNCHANGED <<cfg, msgs, turns, pc, call, reply>>

DropReplay ==
  /\ pc = "sent" /\ call # "summary" /\ MayDrop
  /\ request' = Clean(Asked)
  /\ sends' = sends + 1 /\ total' = total + 1
  /\ UNCHANGED <<cfg, msgs, turns, pc, call, reply>>

\* A forced grace call that ends in a 400 is made again without the forcing.
RetryUnforced ==
  /\ pc = "sent" /\ call = "grace" /\ ~MayDrop
  /\ total' = total + 1
  /\ Send("gracePlain", Asked)
  /\ UNCHANGED turns

\* A 400 nobody retries, or any other error.
Fail ==
  /\ pc = "sent" /\ call # "summary"
  /\ pc' = IF call = "turn" /\ cfg.interactive THEN "idle" ELSE "over"
  /\ UNCHANGED <<cfg, msgs, turns, call, request, sends, total, reply>>

Reply ==
  /\ pc = "sent" /\ call = "turn"
  /\ \/ reply' = Plain
     \/ \E origin \in Providers :
          \E provider \in {origin, Unreported} :
            reply' = [details |-> TRUE, provider |-> provider, origin |-> origin]
  /\ pc' = "judge"
  /\ UNCHANGED <<cfg, msgs, turns, call, request, sends, total>>

GraceReply ==
  /\ pc = "sent" /\ call \in {"grace", "gracePlain"}
  /\ pc' = "over"
  /\ UNCHANGED <<cfg, msgs, turns, call, request, sends, total, reply>>

\* compact asks for a summary of the messages before cut; where it may cut is
\* History's subject.
Summarize(cut) ==
  /\ pc = "judge" /\ call = "turn"
  /\ request' = [messages |-> WithoutReasoning(SubSeq(msgs, 1, cut - 1)),
                 routing |-> cfg.routing, pin |-> Unreported]
  /\ call' = "summary" /\ pc' = "sent" /\ sends' = 1
  /\ UNCHANGED <<cfg, msgs, turns, total, reply>>

SummarizeFails ==
  /\ pc = "sent" /\ call = "summary"
  /\ pc' = "judge"
  /\ UNCHANGED <<cfg, msgs, turns, call, request, sends, total, reply>>

Summarized ==
  /\ pc = "sent" /\ call = "summary"
  /\ Len(request.messages) > 1
  /\ msgs' = <<Plain>> \o SubSeq(msgs, Len(request.messages) + 1, Len(msgs))
  /\ pc' = "judge"
  /\ UNCHANGED <<cfg, turns, call, request, sends, total, reply>>

\* An empty reply, asked for again by the next turn or failing the run.
Ignore ==
  /\ pc = "judge"
  /\ pc' \in {"idle", "over"}
  /\ UNCHANGED <<cfg, msgs, turns, call, request, sends, total, reply>>

\* The assistant message a reply becomes.
Recorded(r) ==
  IF cfg.replay /\ r.details THEN r ELSE Plain

\* The reply enters the history, with a tool result after it or as the end.
Accept ==
  /\ pc = "judge"
  /\ \/ msgs' = msgs \o <<Recorded(reply), Plain>> /\ pc' = "idle"
     \/ msgs' = Append(msgs, Recorded(reply)) /\ pc' \in {"idle", "over"}
  /\ UNCHANGED <<cfg, turns, call, request, sends, total, reply>>

\* A cap, the context or the end of the input, between turns.
Stop ==
  /\ pc = "idle"
  /\ pc' = "over"
  /\ UNCHANGED <<cfg, msgs, turns, call, request, sends, total, reply>>

Over == pc = "over" /\ UNCHANGED vars

Init ==
  /\ cfg \in [replay : BOOLEAN, interactive : BOOLEAN, routing : Routings]
  /\ \E h \in Histories :
       msgs = Append(IF cfg.replay THEN h ELSE WithoutReasoning(h), Plain)
  /\ turns = 0 /\ sends = 0 /\ total = 0
  /\ pc = "idle" /\ call = "turn" /\ reply = Plain
  /\ request = [messages |-> <<>>, routing |-> cfg.routing, pin |-> Unreported]

Next ==
  \/ StartTurn \/ StartGrace
  \/ DropReplay \/ RetryUnforced \/ Fail \/ Reply \/ GraceReply
  \/ \E cut \in 2..Len(msgs) + 1 : Summarize(cut)
  \/ SummarizeFails \/ Summarized
  \/ Ignore \/ Accept \/ Stop
  \/ Over

Spec == Init /\ [][Next]_vars

----------------------------------------------------------------------------
\* Every variable keeps its type; what becomes of a routing value is
\* RoutingRespected's subject.
TypeOK ==
  /\ cfg \in [replay : BOOLEAN, interactive : BOOLEAN, routing : Routings]
  /\ msgs \in Seq(Message) /\ reply \in Message
  /\ turns \in 0..MaxTurns
  /\ pc \in {"idle", "sent", "judge", "over"}
  /\ call \in {"turn", "grace", "gracePlain", "summary"}
  /\ request.messages \in Seq(Message)
  /\ request.pin \in Providers \cup {Unreported}
  /\ sends \in 0..2 /\ total \in Nat

\* A request pinned to a provider carries only details that provider signed,
\* and carries all it signed, the newest of the conversation among them:
\* signed reasoning validates only where it was produced (replay.go 44-47,
\* Config.ReplayReasoning).
SignedWhereProduced ==
  request.pin # Unreported =>
    LET out == request.messages
    IN  /\ Carries(out)
        /\ \A i \in DOMAIN out : out[i].details => out[i].origin = request.pin

\* The provider of the newest details leads the order of a request that is
\* pinned, before whatever the configuration preferred, and what the
\* configuration forbids wins over the pin.
RoutingRespected ==
  /\ request.pin # Unreported =>
       /\ Head(request.routing.order.names) = request.pin
       /\ cfg.routing.only.kind # "absent" => request.pin \in Range(cfg.routing.only.names)
       /\ request.pin \notin Range(cfg.routing.ignore.names)
  /\ [request.routing EXCEPT !.order = cfg.routing.order] = cfg.routing
  /\ Range(cfg.routing.order.names) \subseteq Range(request.routing.order.names)
  /\ request.pin = Unreported => request.routing = cfg.routing

\* The newest details of the conversation are in every first request of a
\* turn: a pin never drops what it was taken from.
NewestReplayed ==
  pc = "sent" /\ call # "summary" /\ sends = 1 =>
    \A i \in DOMAIN msgs :
      msgs[i].details /\ (\A j \in DOMAIN msgs : msgs[j].details => j <= i)
        => request.messages[i].details

\* A turn costs at most one rejected request more, and the grace turn at most
\* three; the repeated request carries neither details nor pin.
RetriedOnceClean ==
  /\ sends <= 2
  /\ total <= IF call \in {"turn", "summary"} THEN 2 ELSE 4
  /\ sends = 2 => request.pin = Unreported /\ ~Carries(request.messages)

\* Without ReplayReasoning nothing that was signed is ever sent, also when the
\* run is seeded with a history that holds details; summaries never get any.
NothingReplayedUnasked ==
  ~cfg.replay \/ call = "summary" => ~Carries(request.messages)

\* What a run keeps of a message is never changed by sending it: a rejected or
\* pinned request leaves the history's details alone, and only a summary
\* takes messages out.
HistoryUntouched ==
  [][\/ IsPrefix(msgs, msgs')
     \/ call = "summary" /\ \E cut \in 2..Len(msgs) :
          msgs' = <<Plain>> \o SubSeq(msgs, cut + 1, Len(msgs))]_vars
============================================================================
