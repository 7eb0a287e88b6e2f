--------------------------- MODULE ProviderAdapters ---------------------------
(***************************************************************************)
(* The engine's adapters.  Each one turns a request into one or more       *)
(* exchanges with a service: it looks at what the request must have, sends,*)
(* classifies the status, parses the body, asks it for a refusal in the    *)
(* service's own form, and takes the answer out of it.                     *)
(*                                                                         *)
(* Addresses, signatures, prompts and texts are left out.  What remains of *)
(* a reply is its status and what its body is:                             *)
(*   "answer"   holds the answer     "half"   holds its frame only         *)
(*   "blank"    lacks the frame      "mangled"  is not what was agreed     *)
(* or one of the Forms in which a body with a good status can refuse, which*)
(* holds no frame either.                                                  *)
(***************************************************************************)
EXTENDS Naturals, Sequences

CONSTANTS
    Calls,        \* calls of adapters
    Lifetimes,    \* lifetimes of a bearer token, 0 when it cannot be read
    MaxTime       \* bound on the clock

Forms == {"string", "number", "object", "message"}
Statuses == {"ok", "auth", "rate", "bad", "other"}
Bodies == {"answer", "half", "blank", "mangled"} \cup Forms
\* failed_response quotes the body of a failing status and no more: one kind of
\* body stands for all.
Replies == [status : {"ok"}, body : Bodies] \cup [status : Statuses \ {"ok"}, body : {"answer"}]

-----------------------------------------------------------------------------
(* The adapters: what a request must have, the exchanges, the forms of     *)
(* refusal looked for, and what becomes of a body without an answer.       *)

Refused  == [half |-> {"serialization"}, blank |-> {"serialization"}]
\* A list that is there and holds nothing is an answer without parts.
NoParts  == [half |-> {"empty"}, blank |-> {"serialization"}]
\* What is not there is empty.
Empty    == [half |-> {"empty"}, blank |-> {"empty"}]
\* A frame without its regions is indexed all the same; one without a region,
\* or none, is empty.
Indexed  == [half |-> {"empty", "panic"}, blank |-> {"empty"}]

Adapter(needs, trips, tells, missing) ==
    [needs |-> needs, trips |-> trips, tells |-> tells, missing |-> missing]

ensure_baidu_success == {"number", "string"}
BaiduDetect    == Adapter("texts", <<"query">>, ensure_baidu_success, Refused)
BaiduTranslate == Adapter("target", <<"query">>, ensure_baidu_success, NoParts)
\* A token first; any error_code at all in the second body is a refusal.
BaiduOcr       == Adapter("image", <<"token", "query">>, {"number", "string"}, NoParts)

\* Youdao's errorCode is read when it is a string.
YoudaoDetect    == Adapter("texts", <<"query">>, {"string"}, Refused)
YoudaoTranslate == Adapter("target", <<"query">>, {"string"}, NoParts)
\* Pictures are asked for when the entry has definitions or pronunciations.
YoudaoLookUp    == Adapter("nothing", <<"query", "pictures">>, {"string"}, Empty)
YoudaoOcr       == Adapter("image", <<"query">>, {"string"}, Indexed)

TencentRefusals  == {"object"}
TencentDetect    == Adapter("texts", <<"query">>, TencentRefusals, Refused)
TencentTranslate == Adapter("target", <<"query">>, TencentRefusals, Refused)

GoogleDetect    == Adapter("texts", <<"query">>, {}, NoParts)
GoogleTranslate == Adapter("target", <<"query">>, {}, NoParts)
DeepLTranslate  == Adapter("target", <<"query">>, {}, NoParts)
\* Without both languages the direction is left to the service.
CaiyunTranslate == Adapter("nothing", <<"query">>, {"message"}, NoParts)
TransmartTranslate == Adapter("target", <<"query">>, {}, NoParts)
LibreTranslate  == Adapter("target", <<"query">>, {}, Refused)
MTranTranslate  == Adapter("target", <<"query">>, {}, Refused)
GoogleWebTranslate == Adapter("target", <<"query">>, {}, NoParts)
\* A detection is a translation into English whose target is given; one that
\* names no language is answered with an empty one.
GoogleWebDetect == [GoogleWebTranslate EXCEPT !.needs = "texts"]
BingTranslate   == Adapter("target", <<"bearer", "query">>, {}, Refused)
BingDetect      == [BingTranslate EXCEPT !.needs = "texts", !.missing = NoParts]

OpenAiChat    == Adapter("nothing", <<"query">>, {}, NoParts)
\* Without a text block, or a message, the answer is an empty text.
AnthropicChat == Adapter("nothing", <<"query">>, {}, Empty)
OllamaChat    == Adapter("nothing", <<"query">>, {}, Empty)
\* A good status is the beginning of a stream, whose body is read later.
OpenAiStream    == Adapter("nothing", <<"stream">>, {}, Refused)
AnthropicStream == Adapter("nothing", <<"stream">>, {}, Refused)
OllamaStream    == Adapter("nothing", <<"stream">>, {}, Refused)

\* On the machine itself: a word that is not in the index has no entry, an
\* image without text has none.
EcdictLookUp == Adapter("word", <<"index">>, {}, Empty)
SystemImage  == "image"
MacOcr       == Adapter(SystemImage, <<"vision">>, {}, Empty)
WindowsOcr   == Adapter(SystemImage, <<"vision">>, {}, Empty)

Baidu == {BaiduDetect, BaiduTranslate, BaiduOcr}
Youdao == {YoudaoDetect, YoudaoTranslate, YoudaoLookUp, YoudaoOcr}
Keyed == {TencentDetect, TencentTranslate, GoogleDetect, GoogleTranslate, DeepLTranslate,
          CaiyunTranslate, TransmartTranslate, LibreTranslate, MTranTranslate}
Web == {GoogleWebTranslate, GoogleWebDetect, BingTranslate, BingDetect}
Models == {OpenAiChat, AnthropicChat, OllamaChat, OpenAiStream, AnthropicStream, OllamaStream}
Local == {EcdictLookUp, MacOcr, WindowsOcr}
Adapters == Baidu \cup Youdao \cup Keyed \cup Web \cup Models \cup Local

-----------------------------------------------------------------------------
VARIABLES
    adapter, at, step, outcome,
    said,       \* the replies to a call's exchanges
    carried,    \* the bearer token a call sends
    cache, now  \* BingWebTranslationService.token

vars == <<adapter, at, step, outcome, said, carried, cache, now>>

NoToken == [expires |-> 0]
None == [kind |-> "none"]
Error(why) == [kind |-> "error", why |-> why]
Answer(whole) == [kind |-> "answer", whole |-> whole]
Lost == [status |-> "lost", body |-> "none"]

Init ==
    /\ adapter \in [Calls -> {BingTranslate}]
    /\ at = [c \in Calls |-> 0] /\ step = [c \in Calls |-> "idle"]
    /\ outcome = [c \in Calls |-> None]
    /\ said = [c \in Calls |-> <<>>]
    /\ carried = [c \in Calls |-> NoToken]
    /\ cache = NoToken /\ now = 0

Trip(c) == adapter[c].trips[at[c]]
Last(c) == at[c] = Len(adapter[c].trips)

\* Calls share the token of the Bing adapter and nothing else: those of other
\* adapters are explored alone.
Shares(a) == a.trips[1] = "bearer"
Alone(c, a) ==
    \A d \in Calls \ {c} : step[d] = "idle" \/ (Shares(a) /\ Shares(adapter[d]))

End(c, o) == step' = [step EXCEPT ![c] = "over"] /\ outcome' = [outcome EXCEPT ![c] = o]

\* A call; a request that lacks what it must have ends before any exchange.
Ask(c) ==
    /\ step[c] = "idle"
    /\ \E a \in Adapters :
           /\ Alone(c, a)
           /\ adapter' = [adapter EXCEPT ![c] = a]
           /\ at' = [at EXCEPT ![c] = 1]
           /\ \/ step' = [step EXCEPT ![c] = "ready"] /\ UNCHANGED outcome
              \/ a.needs # "nothing" /\ End(c, Error("request"))
    /\ UNCHANGED <<said, carried, cache, now>>

\* cached_token_still_valid, by more than a minute.
Valid(token) == now + 1 < token.expires

\* bearer_token, the first half: under the lock of the cache.
UseCached(c) ==
    /\ step[c] = "ready" /\ Trip(c) = "bearer" /\ Valid(cache)
    /\ carried' = [carried EXCEPT ![c] = cache]
    /\ at' = [at EXCEPT ![c] = @ + 1]
    /\ UNCHANGED <<adapter, step, outcome, said, cache, now>>

Send(c) ==
    /\ step[c] = "ready" /\ ~(Trip(c) = "bearer" /\ Valid(cache))
    /\ \/ step' = [step EXCEPT ![c] = "sent"] /\ UNCHANGED outcome
       \/ Trip(c) = "pictures" /\ End(c, Answer(TRUE))   \* nothing to show
    /\ UNCHANGED <<adapter, at, said, carried, cache, now>>

\* from_http_status
classify_status(status) ==
    CASE status = "auth" -> Error("auth") [] status = "rate" -> Error("rate")
      [] status = "bad" -> Error("request") [] OTHER -> Error("network")

\* What a body without an answer may come to.
Missing(a, body) ==
    {IF how = "empty" THEN Answer(FALSE) ELSE Error(how) :
        how \in IF body = "half" THEN a.missing.half ELSE a.missing.blank}

\* Mutant: a refusal in the body is not asked for.
ReadUnasked(a, body) ==
    CASE body = "answer" -> {Answer(TRUE)}
      [] body = "mangled" -> {Error("serialization")}
      [] body \in Forms -> {Answer(TRUE)}
      [] OTHER -> Missing(a, body)

Read(a, body) ==
    CASE body = "answer" -> {Answer(TRUE)}
      [] body = "mangled" -> {Error("serialization")}
      [] body \in a.tells -> {Error("network")}
      [] OTHER -> Missing(a, body)

Hear(c, reply) == said' = [said EXCEPT ![c] = Append(@, reply)]

\* The reply of an exchange that decides the call, or lets it go on.
ReceiveAnswer(c) ==
    /\ step[c] = "sent" /\ Trip(c) \in {"query", "stream", "index", "vision"}
    /\ \E reply \in Replies \cup {Lost} :
           \E got \in IF reply.status # "ok" THEN {classify_status(reply.status)}
                      ELSE IF Trip(c) = "stream" THEN {Answer(TRUE)}
                      ELSE Read(adapter[c], reply.body) :
               /\ Hear(c, reply)
               /\ IF got.kind = "answer" /\ got.whole /\ ~Last(c)
                  THEN at' = [at EXCEPT ![c] = @ + 1]
                       /\ step' = [step EXCEPT ![c] = "ready"] /\ UNCHANGED outcome
                  ELSE End(c, got) /\ UNCHANGED at
    /\ UNCHANGED <<adapter, carried, cache, now>>

\* The token of Baidu's text recognition: asked for every time.
ReceiveToken(c) ==
    /\ step[c] = "sent" /\ Trip(c) = "token"
    /\ \E reply \in Replies \cup {Lost} :
           /\ Hear(c, reply)
           /\ IF reply.status = "ok" /\ reply.body = "answer"
              THEN at' = [at EXCEPT ![c] = @ + 1]
                   /\ step' = [step EXCEPT ![c] = "ready"] /\ UNCHANGED outcome
              ELSE /\ UNCHANGED at
                   /\ End(c, IF reply.status # "ok" THEN classify_status(reply.status)
                             ELSE IF reply.body = "mangled" THEN Error("serialization")
                             ELSE Error("network"))
    /\ UNCHANGED <<adapter, carried, cache, now>>

\* bearer_token, the second half: a token whose end can be read is stored,
\* whatever was stored meanwhile; an empty one is an error.
ReceiveBearer(c) ==
    /\ step[c] = "sent" /\ Trip(c) = "bearer"
    /\ \E reply \in {r \in Replies : r.body \in {"answer", "blank"}} \cup {Lost}, life \in Lifetimes :
           /\ Hear(c, reply)
           /\ IF reply.status = "ok" /\ reply.body = "answer"
              THEN LET token == [expires |-> IF life = 0 THEN 0 ELSE now + life]
                   IN  /\ carried' = [carried EXCEPT ![c] = token]
                       /\ cache' = IF life = 0 THEN cache ELSE token
                       /\ at' = [at EXCEPT ![c] = @ + 1]
                       /\ step' = [step EXCEPT ![c] = "ready"] /\ UNCHANGED outcome
              ELSE /\ End(c, IF reply.status # "ok" THEN classify_status(reply.status) ELSE Error("auth"))
                   /\ UNCHANGED <<at, carried, cache>>
    /\ UNCHANGED <<adapter, now>>

\* Pictures decorate an entry; whatever becomes of them, it is answered.
ReceivePictures(c) ==
    /\ step[c] = "sent" /\ Trip(c) = "pictures"
    /\ \E reply \in Replies \cup {Lost} : Hear(c, reply)
    /\ End(c, Answer(TRUE))
    /\ UNCHANGED <<adapter, at, carried, cache, now>>

Tick ==
    /\ now < MaxTime
    /\ now' = now + 1
    /\ UNCHANGED <<adapter, at, step, outcome, said, carried, cache>>

Next ==
    \/ \E c \in Calls :
           \/ Ask(c) \/ UseCached(c) \/ Send(c)
           \/ ReceiveAnswer(c) \/ ReceiveToken(c) \/ ReceiveBearer(c) \/ ReceivePictures(c)
    \/ Tick

Spec == Init /\ [][Next]_vars

-----------------------------------------------------------------------------
TypeOK ==
    /\ adapter \in [Calls -> Adapters]
    /\ step \in [Calls -> {"idle", "ready", "sent", "over"}]
    /\ \A c \in Calls : at[c] \in 0 .. 2 /\ Len(said[c]) <= 2
    /\ now \in 0 .. MaxTime

Needed(c) == {k \in DOMAIN said[c] : ~(adapter[c].trips[Len(adapter[c].trips)] = "pictures" /\ k = 2)}

\* A call is answered only when all it was told had a good status, and its
\* answer is whole only when the exchange it hangs on held the answer.  An answer
\* without parts comes of a frame without them or, from the adapters that look
\* for no frame, of a body without one: never of a body that cannot be read nor
\* of a refusal in a form that is looked for.
RefusalIsNoAnswer ==
    \A c \in Calls : outcome[c].kind = "answer" =>
        /\ \A k \in Needed(c) : said[c][k].status = "ok"
        /\ LET last == said[c][Len(said[c])]
               decisive == IF adapter[c].trips[Len(adapter[c].trips)] = "pictures"
                           THEN said[c][1] ELSE last
           IN  IF outcome[c].whole
               THEN decisive.body = "answer" \/ adapter[c].trips[1] = "stream"
               ELSE /\ decisive.body \notin {"answer", "mangled"} \cup adapter[c].tells
                    /\ decisive.body = "half" \/ "empty" \in adapter[c].missing.blank
=============================================================================
