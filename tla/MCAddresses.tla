---------------------------- MODULE MCAddresses ----------------------------
(* An instance of Addresses for TLC.                                       *)
EXTENDS Addresses

SomeV4 == [1 .. 4 -> {0, 254}]
\* Every pattern of zero words, the others being 1234; and, where the last
\* word is not zero, the same with fedc there.
SomeV6 ==
  LET patterns == [1 .. 8 -> {0, 4660}]
  IN patterns \cup
     {[w EXCEPT ![8] = 65244] : w \in {v \in patterns : v[8] # 0}}
\* An address to replace another with.
SomeNew ==
  {[type |-> "AF_INET6", m_addr |-> <<4660, 0, 0, 4660, 4660, 0, 0, 0>>, m_port |-> 0]}
=============================================================================
