----------------------------- MODULE LsaInstance -----------------------------
(***************************************************************************)
(* Instances of one LSA of ospf6d and the order "more recent" on them      *)
(* (ospf6_lsa.c).                                                          *)
(*                                                                         *)
(* An LSA is identified by (type, id, advertising router).  Every list of  *)
(* LSAs that flooding works on (the LSDB, a neighbor's retransmission and  *)
(* request list) is a map from that key to one instance, and every         *)
(* operation looks up and changes one key only, so the modules follow one  *)
(* key.  An instance is reduced to what ospf6_lsa_compare() tells apart:   *)
(* its sequence number and whether its age has reached MaxAge.  Instances  *)
(* of one key that agree on the sequence number but not on the checksum,   *)
(* or whose ages differ by MAX_AGE_DIFF, are not told apart.               *)
(***************************************************************************)
EXTENDS Integers

CONSTANT MaxSeq     \* bound: the largest sequence number that is explored

ASSUME MaxSeqAssumption == MaxSeq \in Nat \ {0}

Seqs == 1..MaxSeq

(* The instances, and NoLsa: what a lookup returns when the key is absent. *)
Instances == [seq : Seqs, maxage : BOOLEAN]

NoLsa == [seq |-> 0, maxage |-> FALSE]

Slot == Instances \cup {NoLsa}

(* ospf6_lsa_compare(a, b): -1 when a is more recent, 1 when b is, else 0. *)
Compare(a, b) ==
    IF a.seq # b.seq THEN (IF a.seq > b.seq THEN -1 ELSE 1)
    ELSE IF a.maxage = b.maxage THEN 0
    ELSE IF a.maxage THEN -1 ELSE 1

(* Time passes until the instance with sequence number s reaches MaxAge    *)
(* (ospf6_lsa_age_current): copies keep the birth time of their original.  *)
AgeCurrent(i, s) == IF i.seq = s THEN [i EXCEPT !.maxage = TRUE] ELSE i

(* Mutant: the numbering starts again with every instance.                 *)
NewLsSeqnumMutant(i) == 1

(* ospf6_new_ls_seqnum: one more than the instance in the LSDB.            *)
NewLsSeqnum(i) == i.seq + 1

=============================================================================
