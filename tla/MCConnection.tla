---------------------------- MODULE MCConnection ----------------------------
(***************************************************************************)
(* Instances of Connection for model checking.                             *)
(***************************************************************************)
EXTENDS Connection

\* The methods a client has when it was given none (nego_connect).
Default == Methods

\* Every combination of the options, with the default methods, and every
\* selection of methods with the default options. As on the command line, a
\* client without multitransport has no flags for it either.
AllClients ==
  LET all == [rdp : BOOLEAN, methods : {Default}, channels : {0, MaxChannels},
              autodetect : BOOLEAN, heartbeat : BOOLEAN, skipJoin : BOOLEAN,
              multi : BOOLEAN, flags : {{}, {"FECL"}, {"FECR"}, {"FECR", "FECL"}}]
      secure == [rdp : {TRUE}, methods : SUBSET Methods \ {{}}, channels : {0},
                 autodetect : {TRUE}, heartbeat : {TRUE}, skipJoin : {TRUE},
                 multi : {TRUE}, flags : {{"FECR"}}]
  IN {c \in all : ~c.multi => c.flags = {}} \cup secure

AllServers ==
  [local : BOOLEAN, level : Levels, autodetect : BOOLEAN, skipJoin : BOOLEAN,
   multi : BOOLEAN, flags : {{}, {"FECR"}, {"FECR", "FECL"}}]

\* The client of the shadow server's Windows subsystem turns multitransport off
\* and leaves the default of its flags.
ShadowWinClients ==
  {[rdp |-> FALSE, methods |-> {}, channels |-> 0, autodetect |-> FALSE,
    heartbeat |-> FALSE, skipJoin |-> TRUE, multi |-> FALSE, flags |-> {"FECR"}]}

DefaultServers ==
  {[local |-> FALSE, level |-> "NONE", autodetect |-> TRUE, skipJoin |-> TRUE,
    multi |-> TRUE, flags |-> {"FECR"}]}
=============================================================================
