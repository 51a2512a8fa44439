------------------------------- MODULE MCWaiting -------------------------------
EXTENDS Waiting

\* A poller, a stream, and a client that posts.
For(readers, blind, lifts) == [for |-> readers, blind |-> blind, lifts |-> lifts]

MCPoller == {"ann"}
MCStream == {"bob"}
MCWriter == {"cat"}

\* The stream selects whatever is posted.  The poller selects less than the log holds,
\* and is blind to one of the posts until another is made.
MCArrival ==
    {For({"bob"}, {}, FALSE), For({"ann", "bob"}, {"ann"}, FALSE), For({"ann", "bob"}, {}, TRUE)}

\* The stream, too, selects less than the log holds.
MCFiltered ==
    {For({"ann", "bob"}, {}, FALSE), For({"ann"}, {"ann"}, FALSE), For({"ann"}, {}, TRUE)}

=============================================================================
