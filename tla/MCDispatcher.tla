---------------------------- MODULE MCDispatcher ----------------------------
\* Two lookups, two plug-in objects, which have the same identifier, and three
\* others, three constructions in all; lookups ask for one identifier;
\* a bit set of two-bit chunks, hints of three and four identifiers.
EXTENDS Dispatcher

MCIDs == {2}
=============================================================================
