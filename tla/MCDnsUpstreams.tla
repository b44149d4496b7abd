--------------------------- MODULE MCDnsUpstreams ---------------------------
(* The instance of DnsUpstreams for TLC.                                   *)
EXTENDS DnsUpstreams, TLC

CONSTANTS s1, s2, self

=============================================================================
