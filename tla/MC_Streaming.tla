---------------------------- MODULE MC_Streaming ----------------------------
EXTENDS Streaming

CONSTANTS w1, w2, BTC, CP4

\* A shock that stays: +8 %, then +9 % against day 0's close of 100.
MCQuotes == [k \in {BTC} |->
  <<[day |-> 1, price |-> 108], [day |-> 1, price |-> 109]>>]
MCOfficial == [k \in {BTC} |-> [d \in 0..1 |-> 100]]

\* Two downgrades, the first of them with a body no attempt can decode.
MCDowngrades == [c \in {CP4} |-> 2]
MCPoison == {<<CP4, 1>>}
=============================================================================
