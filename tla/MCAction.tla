------------------------------ MODULE MCAction ------------------------------
EXTENDS Action

\* An unreadable print moves the winner's position off its index.
MCGalleries == {<<"sound">>, <<"unreadable">>, <<"unreadable", "sound">>}

=============================================================================
