-------------------------- MODULE MCDnsProviders ---------------------------
EXTENDS DnsProviders

CONSTANTS z1, z2

MCListings == {{z1}, {z1, z2}}
=============================================================================
