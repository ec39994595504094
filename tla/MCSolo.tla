------------------------------- MODULE MCSolo -------------------------------
(* Solo for TLC: hashes of blocks of eight bytes, of which two make a job  *)
(* id, a quarter, like 16 of 64 digits.                                    *)
EXTENDS Solo

CONSTANTS t1, t2, t3, t4, t5, t6

Template(prev, time, value, txs) ==
    [version |-> 536870912, curtime |-> 1700000000 + time, bits |-> <<29, 0, 255, 255>>,
     prev |-> prev, height |-> <<3, 222, 173, 12>>,
     outputs |-> <<1, value, 222, 173, 190, 239>>, txs |-> txs]

(* Two blocks, the first with three templates: two that differ in time,    *)
(* with an odd count after the first neighbour of the coinbase, and one    *)
(* with none but the coinbase.                                             *)
RegtestTemplates ==
    <<Template(<<1, 2, 3, 4, 5, 6, 7, 8>>, 0, 50, <<t1, t2, t3, t4, t5, t6>>),
      Template(<<1, 2, 3, 4, 5, 6, 7, 8>>, 9, 50, <<t1, t2, t3, t4, t5, t6>>),
      Template(<<8, 7, 6, 5, 4, 3, 2, 1>>, 9, 25, <<>>)>>

(* Two blocks of a chain with mainnet's difficulty.                        *)
MainnetTemplates ==
    <<Template(<<0, 0, 3, 4, 5, 6, 7, 8>>, 0, 50, <<t1>>),
      Template(<<0, 0, 6, 5, 4, 3, 2, 1>>, 9, 50, <<t2>>)>>
=============================================================================
