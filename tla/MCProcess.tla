------------------------------ MODULE MCProcess ------------------------------
EXTENDS Process

MCFiles == {"host", "containerd", "crio"}
MCValues == {":8080", "info", "*", "other"}
MCUnset == ""
MCCommonPaths == <<"containerd", "crio">>

Full ==
  [ Address |-> "other", LogLevel |-> "other", Cgroup |-> "host",
    Proc |-> "host", CRISocket |-> "crio", Filters |-> <<"other", "">>,
    EmptyFilePattern |-> TRUE ]

Bare ==
  [ Address |-> "", LogLevel |-> "", Cgroup |-> "", Proc |-> "",
    CRISocket |-> "", Filters |-> <<"">>, EmptyFilePattern |-> FALSE ]

NoFilters == [Bare EXCEPT !.Filters = <<>>]

MCGiven == {Full, Bare, NoFilters}

MCRequests == {"r1", "r2"}
=============================================================================
