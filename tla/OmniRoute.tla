------------------------------ MODULE OmniRoute ------------------------------
(***************************************************************************)
(* chat and async_chat of src/ai/omniroute_client.py: a request is sent to *)
(* OmniRoute with retries and a growing delay, and when that fails to the  *)
(* OpenAI endpoint, if one is configured, in the same way.                 *)
(***************************************************************************)
EXTENDS Integers, Sequences

CONSTANTS Clients,      \* the endpoints in the order they are tried
          MaxRetries,   \* max_retries
          MinDelay,     \* _RETRY_DELAY
          Default,      \* self.model
          Override      \* the model argument, Default when there is none

\* The last conjunct is no restriction: it is what doubling does to a power of two.
OmniAssumption ==
    /\ Clients \in Seq(STRING) \ {<< >>}
    /\ MaxRetries \in Nat \ {0} /\ MinDelay \in Nat \ {0}
    /\ \A n \in 0..MaxRetries : 2 ^ n \in Nat \ {0} /\ 2 ^ (n + 1) = 2 * 2 ^ n

VARIABLES state,     \* "sending", "sleeping", "answered", "failed"
          client,    \* the index of the endpoint in use
          attempt,   \* the number of the attempt
          delay,     \* how long to sleep after the next failure
          model,     \* kwargs["model"], or Default once it was popped
          sent,      \* the requests sent: endpoint and model (not in the code)
          slept      \* how long the call has slept in all (not in the code)

vars == <<state, client, attempt, delay, model, sent, slept>>

\* Faulty variant: the arguments as the first endpoint left them.
EnterUsed(c) ==
    /\ state' = "sending"
    /\ client' = c
    /\ attempt' = 1
    /\ delay' = MinDelay
    /\ model' = model

\* _call_with_retry is entered with the arguments of the call.
Enter(c) ==
    /\ state' = "sending"
    /\ client' = c
    /\ attempt' = 1
    /\ delay' = MinDelay
    /\ model' = Override

Init ==
    /\ state = "sending" /\ client = 1 /\ attempt = 1 /\ delay = MinDelay
    /\ model = Override
    /\ sent = << >> /\ slept = 0

\* A request takes the model from the arguments, and it is gone from them.
Send ==
    /\ sent' = Append(sent, [client |-> client, model |-> model])
    /\ model' = Default

Answers ==
    /\ state = "sending"
    /\ Send
    /\ state' = "answered"
    /\ UNCHANGED <<client, attempt, delay, slept>>

\* A failure that passes, as a time-out or a rate limit: sleep, also after the last
\* attempt.
FailsForNow ==
    /\ state = "sending"
    /\ Send
    /\ state' = "sleeping"
    /\ slept' = slept + delay
    /\ delay' = 2 * delay
    /\ UNCHANGED <<client, attempt>>

\* The next endpoint, or the error.
GiveUp ==
    IF client < Len(Clients)
    THEN Enter(client + 1)
    ELSE state' = "failed" /\ UNCHANGED <<client, attempt, delay, model>>

\* Any other failure.
FailsForGood ==
    /\ state = "sending"
    /\ sent' = Append(sent, [client |-> client, model |-> model])
    /\ GiveUp
    /\ UNCHANGED slept

\* Faulty variant: one attempt too many.
WakeLate ==
    /\ state = "sleeping"
    /\ IF attempt <= MaxRetries
       THEN /\ state' = "sending"
            /\ attempt' = attempt + 1
            /\ UNCHANGED <<client, delay, model>>
       ELSE GiveUp
    /\ UNCHANGED <<sent, slept>>

\* Faulty variant: nothing follows the last sleep.
WakeToRetry ==
    /\ state = "sleeping"
    /\ attempt < MaxRetries
    /\ state' = "sending"
    /\ attempt' = attempt + 1
    /\ UNCHANGED <<client, delay, model, sent, slept>>

Wake ==
    /\ state = "sleeping"
    /\ IF attempt < MaxRetries
       THEN /\ state' = "sending"
            /\ attempt' = attempt + 1
            /\ UNCHANGED <<client, delay, model>>
       ELSE GiveUp
    /\ UNCHANGED <<sent, slept>>

Next == Answers \/ FailsForNow \/ FailsForGood \/ Wake

Spec == Init /\ [][Next]_vars

\* A request is answered or times out, and a sleep ends.
FairSpec == Spec /\ WF_vars(Next)

-----------------------------------------------------------------------------
\* The variables hold values of their types.
TypeOK ==
    /\ state \in {"sending", "sleeping", "answered", "failed"}
    /\ client \in DOMAIN Clients
    /\ attempt \in 1..MaxRetries
    /\ delay \in Nat /\ slept \in Nat
    /\ model \in {Default, Override}
    /\ \A i \in DOMAIN sent : sent[i].client \in DOMAIN Clients

\* Every endpoint is asked for the model of the call once, first of all, although the
\* endpoint before has used up its arguments; and its retries ask for the model of the
\* client, whatever failed.  The docstrings of chat and async_chat offer the override
\* for the call (lines 146 and 204); kwargs.pop inside the loop loses it for retries.
OverrideOncePerEndpoint ==
    \A i \in DOMAIN sent :
        sent[i].model =
            IF i = 1 \/ sent[i - 1].client # sent[i].client THEN Override ELSE Default

\* However the failures of the endpoints are mixed, a call sleeps no longer than the
\* doubled delays add up to, and an endpoint is not gone back to.
CallBounded ==
    /\ slept <= Len(Clients) * MinDelay * (2 ^ MaxRetries - 1)
    /\ \A i, j \in DOMAIN sent : i < j => sent[i].client <= sent[j].client

\* What the fairness brings about, with an answer or the last error.
Ended == state \in {"answered", "failed"}

-----------------------------------------------------------------------------
\* What the invariants rest on.

\* The endpoints that were asked are those up to the one in use.
SentSound ==
    /\ sent \in Seq([client : DOMAIN Clients, model : {Default, Override}])
    /\ \A i \in DOMAIN sent : sent[i].client <= client

\* An endpoint that was not asked yet is about to be asked for the model of the call, and
\* one that was asked is not.
FirstIsOverride ==
    ~ Ended =>
        model = IF sent # << >> /\ sent[Len(sent)].client = client THEN Default ELSE Override

\* The delay of the endpoint in use, doubled as often as it may still be, and what the
\* endpoints before it and this one have slept.
Longest == MinDelay * 2 ^ MaxRetries

DoublingsLeft == IF state = "sleeping" THEN MaxRetries - attempt ELSE MaxRetries - attempt + 1

SleptSoFar ==
    /\ ~ Ended => delay * 2 ^ DoublingsLeft = Longest
    /\ MinDelay <= delay /\ delay <= Longest
    /\ slept <= (client - 1) * (Longest - MinDelay) + (delay - MinDelay)

IInv == TypeOK /\ OverrideOncePerEndpoint /\ CallBounded
            /\ SentSound /\ FirstIsOverride /\ SleptSoFar

=============================================================================
