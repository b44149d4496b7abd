----------------------------- MODULE MCDnsProxy -----------------------------
(* The instance of DnsProxy for TLC.                                       *)
EXTENDS DnsProxy, TLC

CONSTANTS q1, q2, n1

\* A plain client, one that validates, and one that wants unchecked answers.
MCPostures == {[edns |-> FALSE, do |-> FALSE, cd |-> FALSE],
               [edns |-> TRUE, do |-> TRUE, cd |-> FALSE],
               [edns |-> TRUE, do |-> FALSE, cd |-> TRUE]}

=============================================================================
