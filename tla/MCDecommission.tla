---------------------------- MODULE MCDecommission ----------------------------
EXTENDS Decommission

CONSTANTS client, generic, endpoint

\* A freeipa-client host with a generic component: its uninstall, then the
\* client's uninstall, roster entry and identity converge.
ClientSteps == 1 .. 4
ClientComp == <<generic, client, client, client>>
ClientKind == <<"local", "local", "file", "central">>

\* A host with a generic component that is the backend of an internal
\* endpoint: the manifest entry, the apply converge, the uninstall.
EndpointSteps == 1 .. 3
EndpointComp == <<endpoint, endpoint, generic>>
EndpointKind == <<"file", "central", "local">>

=============================================================================
