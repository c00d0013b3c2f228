----------------------------- MODULE PriceFeed -----------------------------
(***************************************************************************)
(* The price feed contract: it asks BandChain for the rates of the symbols  *)
(* of its configuration over an unordered IBC channel and stores what is    *)
(* answered. The auction reads the rates for SetPoolSize.                   *)
(*                                                                         *)
(* An answer carries one rate for each symbol that was asked for, in the    *)
(* order of the request; the contract does not keep the request. A rate is  *)
(* the symbol it is of and the time BandChain resolved it. BandChain and    *)
(* the channel are external: a request may be lost on either way, fail, or  *)
(* be answered at any later time, in any order.                             *)
(***************************************************************************)
EXTENDS TgeCommon, Sequences

CONSTANTS
    SymbolLists,           \* what config.symbols may be, without duplicates
    MAX_UPDATE_INTERVAL,   \* config.max_update_interval
    FeedOwners,            \* addresses that may own the contract
    MAX_REQUESTS           \* bound: requests explored

ASSUME FeedAssumption ==
    /\ MAX_UPDATE_INTERVAL \in Nat /\ MAX_REQUESTS \in Nat
    /\ OWNER \in FeedOwners

VARIABLES
    feed_config,   \* owner and symbols of Config
    endpoint,      \* ENDPOINT is stored
    last_update,   \* LAST_UPDATE, 0 when there is none
    feed_error,    \* ERROR is stored
    rates,         \* RATES
    requests,      \* the packets sent, in order: the request id is the index
    settled        \* history: the last rates stored were asked for, and stored
                   \* under, the symbols that are configured

feedVars == <<feed_config, endpoint, last_update, feed_error, rates, requests, settled>>

PriceFeedInit ==
    /\ feed_config \in [owner : {OWNER}, symbols : SymbolLists]
    /\ endpoint = FALSE
    /\ last_update = 0
    /\ feed_error = FALSE
    /\ rates = [s \in {} |-> NONE]
    /\ requests = <<>>
    /\ settled = FALSE

\* Version and order of the channel are checked and not kept.
ibc_channel_connect ==
    /\ endpoint' = TRUE
    /\ UNCHANGED <<feed_config, last_update, feed_error, rates, requests, settled>>

\* LAST_UPDATE is when the rates were last asked for, not when they came.
try_request ==
    /\ endpoint
    /\ now - last_update >= MAX_UPDATE_INTERVAL
    /\ Len(requests) < MAX_REQUESTS
    /\ requests' = Append(requests,
           [asked |-> feed_config.symbols, status |-> "sent", resolved |-> NONE])
    /\ last_update' = now
    /\ UNCHANGED <<feed_config, endpoint, feed_error, rates, settled>>

try_update_config(sender, symbols) ==
    /\ sender = feed_config.owner
    /\ feed_config' = [feed_config EXCEPT !.symbols = symbols]
    /\ settled' = (settled /\ symbols = feed_config.symbols)
    /\ UNCHANGED <<endpoint, last_update, feed_error, rates, requests>>

try_update_owner(sender, owner) ==
    /\ sender = feed_config.owner
    /\ feed_config' = [feed_config EXCEPT !.owner = owner]
    /\ UNCHANGED <<endpoint, last_update, feed_error, rates, requests, settled>>

\* BandChain resolves a request, with success or not.
BandResolves(id, status) ==
    /\ requests[id].status = "sent"
    /\ requests' = [requests EXCEPT ![id].status = status, ![id].resolved = now]
    /\ UNCHANGED <<feed_config, endpoint, last_update, feed_error, rates, settled>>

\* A packet that will not be delivered any more.
Over == [asked |-> <<>>, status |-> "over", resolved |-> NONE]

\* The request or its answer is not delivered in time. ibc_packet_timeout and
\* ibc_packet_ack change nothing.
ibc_packet_timeout(id) ==
    /\ requests[id].status \in {"sent", "success", "failure"}
    /\ requests' = [requests EXCEPT ![id] = Over]
    /\ UNCHANGED <<feed_config, endpoint, last_update, feed_error, rates, settled>>

\* Fault: only the rates that are new are stored.
RatesAfter_OnlyNew(answer, id) ==
    LET new == [i \in {j \in DOMAIN answer.asked :
                          feed_config.symbols[j] \notin DOMAIN rates}
                    |-> feed_config.symbols[i]]
    IN  [s \in DOMAIN rates \cup Range(new) |->
             IF s \in Range(new)
             THEN [of |-> s, resolved |-> answer.resolved, resolve_time |-> now,
                   request_id |-> id]
             ELSE rates[s]]

\* RATES after an answer: the rates in the order of the request, under the
\* symbols that are configured now, as of the time of arrival.
RatesAfter(answer, id) ==
    LET place == [s \in {feed_config.symbols[i] : i \in DOMAIN answer.asked} |->
                      CHOOSE i \in DOMAIN answer.asked : feed_config.symbols[i] = s]
    IN  [s \in DOMAIN rates \cup DOMAIN place |->
             IF s \in DOMAIN place
             THEN [of |-> answer.asked[place[s]], resolved |-> answer.resolved,
                   resolve_time |-> now, request_id |-> id]
             ELSE rates[s]]

\* An error is stored although the answer is not acknowledged. More rates than
\* symbols end the call in a panic, which undoes it.
do_ibc_packet_receive(id) ==
    LET answer == requests[id]
    IN  /\ requests' = [requests EXCEPT ![id] = Over]
        /\ \/ /\ answer.status = "failure"
              /\ feed_error' = TRUE
              /\ UNCHANGED <<rates, settled>>
           \/ /\ answer.status = "success"
              /\ Len(answer.asked) <= Len(feed_config.symbols)
              /\ rates' = RatesAfter(answer, id)
              /\ settled' = (answer.asked = feed_config.symbols)
              /\ UNCHANGED feed_error
           \/ /\ answer.status = "success"
              /\ Len(answer.asked) > Len(feed_config.symbols)
              /\ UNCHANGED <<rates, settled, feed_error>>
        /\ UNCHANGED <<feed_config, endpoint, last_update>>

PriceFeedStep ==
    \/ ibc_channel_connect
    \/ try_request
    \/ \E s \in Senders, symbols \in SymbolLists : try_update_config(s, symbols)
    \/ \E s \in Senders, o \in FeedOwners : try_update_owner(s, o)
    \/ \E id \in DOMAIN requests :
           \/ \E status \in {"success", "failure"} : BandResolves(id, status)
           \/ ibc_packet_timeout(id)
           \/ do_ibc_packet_receive(id)

PriceFeedNext ==
    \/ PriceFeedStep /\ UNCHANGED now
    \/ NextBlock /\ UNCHANGED feedVars

PriceFeedSpec ==
    now \in 0..MAX_TIME /\ PriceFeedInit /\ [][PriceFeedNext]_<<now, feedVars>>
-----------------------------------------------------------------------------
\* query_rate fails when a configured symbol has no rate.
RatesKnown == Range(feed_config.symbols) \subseteq DOMAIN rates

\* SetPoolSize of the auction checks the age of the first rate only. That is
\* the age of all of them, and each rate is of the symbol it is stored under,
\* however requests are lost, fail, cross each other and arrive late, as long
\* as the rates in store were both asked for and stored under the configured
\* symbols.
RatesOfOneAnswer ==
    settled =>
        /\ RatesKnown
        /\ \A s, t \in Range(feed_config.symbols) :
               /\ rates[s].of = s
               /\ rates[s].request_id = rates[t].request_id
               /\ rates[s].resolve_time = rates[t].resolve_time
               /\ rates[s].resolved = rates[t].resolved
=============================================================================
