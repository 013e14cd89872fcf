--------------------------- MODULE CertifiedCopy ---------------------------
(* What the backup command promises: at one moment a copy appears that holds  *)
(* a database no newer than the live one together with every byte that        *)
(* database refers to, and nothing replaces it afterwards.  Damage may hit    *)
(* the copy; it is then no longer certified.                                  *)
CONSTANTS Content, NoCopy

VARIABLES live, copy

Certified(c) == c.rows \subseteq c.bytes

Init == live = {} /\ copy = NoCopy

Grow == live' \in SUBSET Content /\ live \subseteq live' /\ UNCHANGED copy

Certify ==
    /\ copy = NoCopy
    /\ \E rows \in SUBSET live : \E bytes \in SUBSET Content :
          copy' = [rows |-> rows, bytes |-> bytes] /\ Certified(copy')
    /\ UNCHANGED live

Damage ==
    /\ copy # NoCopy
    /\ \E bytes \in SUBSET copy.bytes :
          copy' = [copy EXCEPT !.bytes = bytes]
    /\ UNCHANGED live

Next == Grow \/ Certify \/ Damage
Spec == Init /\ [][Next]_<<live, copy>>
=============================================================================
