------------------------------ MODULE Handles -------------------------------
(***************************************************************************)
(* The handles of links: the counter of add_tcp_link, an int that goes     *)
(* round, the modulus it is taken by, and the table it indexes.            *)
(* A link is the number of its creation.  The counter's overflow, which C  *)
(* leaves undefined, wraps as the machine does.                            *)
(* A definition named ...Faulty is the one after it with a bug seeded.     *)
(***************************************************************************)
EXTENDS Integers, FiniteSets

CONSTANTS
    Half,           \* an int goes from -Half to Half - 1; 2^31 in the code
    MaxMade,        \* bound on the links made
    MaxLive         \* bound on the links at one time

ConstantsOK == Half \in Nat \ {0} /\ MaxMade \in Nat /\ MaxLive \in Nat

Values == 2 * Half          \* as many as a handle may have
Handle == 0 .. Values - 1
INVALID == Values - 1       \* INVALID_HTCPLINK

VARIABLES
    i_link,         \* the counter, signed
    m_maplink,      \* the table, from handles to links
    mh_link,        \* mh_link[l]: the handle of l
    made,           \* how many links have been made
    open            \* the links made and not destroyed

vars == <<i_link, m_maplink, mh_link, made, open>>

TypeOK ==
    /\ i_link \in -Half .. Half - 1
    /\ DOMAIN m_maplink \subseteq Handle
    /\ \A h \in DOMAIN m_maplink : m_maplink[h] \in 1..made
    /\ mh_link \in [1..made -> Handle] /\ made \in 0..MaxMade /\ open \subseteq 1..made

Init ==
    i_link = 0 /\ m_maplink = <<>> /\ mh_link = <<>> /\ made = 0 /\ open = {}

(* What ++ makes of an int.                                                *)
Signed(x) == IF x = Half THEN -x ELSE x

(* C's remainder has the sign of its left side.                            *)
Remainder(x, m) == IF x < 0 THEN -((-x) % m) ELSE x % m

ModulusFaulty == Half \div 2 - 1
(* 0x3ffffffff, which no int reaches                                       *)
Modulus == 4 * Values - 1

ToHandleFaulty(x) == Remainder(x - 1, Modulus) % Values
(* The conversion of the remainder to HTCPLINK                             *)
ToHandle(x) == Remainder(x, Modulus) % Values

(* ms_tcp_create and on_event_accept: add_tcp_link, set_link.  What the    *)
(* table had for the handle is replaced.                                   *)
Create ==
    /\ made < MaxMade /\ Cardinality(open) < MaxLive
    /\ i_link' = Signed(i_link + 1) /\ made' = made + 1
    /\ mh_link' = [l \in 1..made' |-> IF l = made' THEN ToHandle(i_link') ELSE mh_link[l]]
    /\ m_maplink' = [h \in DOMAIN m_maplink \cup {mh_link'[made']} |->
                        IF h = mh_link'[made'] THEN made' ELSE m_maplink[h]]
    /\ open' = open \cup {made'}

(* ms_tcp_destroy of the handle of l finds whatever link the table has     *)
(* there.                                                                  *)
Destroy(l) ==
    LET h == mh_link[l] IN
    /\ l \in open /\ h \in DOMAIN m_maplink
    /\ m_maplink' = [k \in DOMAIN m_maplink \ {h} |-> m_maplink[k]]
    /\ open' = open \ {m_maplink[h]}
    /\ UNCHANGED <<i_link, mh_link, made>>

Next == Create \/ \E l \in open : Destroy(l)
Spec == Init /\ [][Next]_vars

-----------------------------------------------------------------------------
(* A link that is open is the one its handle finds, as long as fewer than  *)
(* 2^32 links have been made since: nothing looks whether a handle is      *)
(* still in use.                                                           *)
FoundUnlessLapped ==
    \A l \in open : made - l < Values => mh_link[l] \in DOMAIN m_maplink /\ m_maplink[mh_link[l]] = l

(* A handle is INVALID_HTCPLINK, so that ms_tcp_create reports a failure   *)
(* that was none, once in 2^32 links and not before the last of them.      *)
InvalidIsRare == \A l \in 1..made : mh_link[l] = INVALID => l % Values = Values - 1
=============================================================================
