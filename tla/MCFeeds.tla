------------------------------ MODULE MCFeeds ------------------------------
(***************************************************************************)
(* The price feed and the oracle, which share nothing but the time: the run *)
(* explores the one or the other.                                           *)
(***************************************************************************)
EXTENDS PriceFeed, Oracle

VARIABLE subject

\* Two symbols in either order, and one of them alone.
MCSymbolLists == { <<"ATOM", "USDC">>, <<"USDC", "ATOM">>, <<"ATOM">> }

FeedsInit ==
    /\ now = MAX_UPDATE_INTERVAL
    /\ PriceFeedInit /\ OracleInit
    /\ \/ subject = "feed" /\ oracle_config.period = 0 /\ spot = 1
       \/ subject = "oracle" /\ feed_config.symbols = <<"ATOM">>

FeedsNext ==
    \/ subject = "feed" /\ PriceFeedNext /\ UNCHANGED <<oracleVars, subject>>
    \/ subject = "oracle" /\ OracleNext /\ UNCHANGED <<feedVars, subject>>

FeedsSpec == FeedsInit /\ [][FeedsNext]_<<now, feedVars, oracleVars, subject>>
=============================================================================
