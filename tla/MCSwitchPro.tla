------------------------------ MODULE MCSwitchPro ------------------------------
\* A host that counts 0 and 12, with the rumble of both, hands over rumble and
\* subcommands with and without their id, and reads the flash from within one
\* region over the gap to beyond the other, more than a reply holds, and from
\* within the second region over its end.
EXTENDS SwitchProProfile

MCCounters == {0, 12}
MCRumbles == {<<16, 1>>}
MCUnframed == {RumbleSubcommand, Rumble}
MCSpiReads == {<<24630, 40>>, <<24643, 18>>}
MCValues == {0, 3}
MCAxes == {-32768, 32767}

\* The counter that looks like the id of a subcommand packet without its id.
OneCounter == {1}
OnlySubcommands == {RumbleSubcommand}
===============================================================================
