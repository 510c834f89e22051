------------------------------- MODULE MCExchanges -------------------------------
(***************************************************************************)
(* Instances of the exchanges for TLC: one thread of each protocol, of     *)
(* which a behaviour opens one.                                            *)
(***************************************************************************)
EXTENDS ExchangeProperties, TLC

CONSTANTS authority, holder, issuing, proving

BothProtocols == [th \in Threads |-> IF th = issuing THEN "issue-credential"
                                                     ELSE "present-proof"]

OneRecord  == 1 .. 1
TwoRecords == 1 .. 2

\* No definition tells one content from another.
Symmetry == Permutations(Contents)

\* The calls of the applications.  Of problem reports, the holder's: the state of the
\* authority is the one that promises something about the other end.
EveryCallButDelete ==
  [a \in Agents |-> StoredKinds \cup {"credential-ack", "presentation-ack", "decline"}
                     \cup (IF a = Holder THEN {"problem-report"} ELSE {})]
HolderDeletes ==
  [a \in Agents |-> IF a = Authority
                    THEN {"offer-credential"}
                    ELSE {"propose-credential", "request-credential", "delete"}]
OnlyOffer == [a \in Agents |-> {"offer-credential"}]

ApprovedContent == [a \in Agents |-> "contentApproved"]
Always          == [a \in Agents |-> "always"]
IssuesAlone     == [a \in Agents |-> IF a = Authority THEN "always" ELSE "contentApproved"]
================================================================================
