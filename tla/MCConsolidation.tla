-------------------------- MODULE MCConsolidation --------------------------
(* Instance of Consolidation for TLC.                                       *)
EXTENDS Consolidation

CONSTANTS t1, t2

Paper == [scheme |-> "https", host |-> "a", port |-> NoPort, path |-> <<"p">>,
          params |-> None, query |-> <<>>, written |-> "plain"]
\* Another spelling of the same URL, and two of the root of another port.
Respelled == [Paper EXCEPT !.port = 443, !.path = <<"p", "">>, !.query = <<"utm_source">>,
                           !.written = "capitals"]
Root == [Paper EXCEPT !.port = 80, !.path = <<>>, !.query = <<"id">>]
RootRespelled == [Root EXCEPT !.path = <<"">>, !.query = <<"utm_source", "id">>,
                              !.written = "user and fragment"]

\* One document without a date, with two good dates and one that is too late;
\* one without a date or title; the same path on the default port, on port 0
\* and with more slashes; /p;v=1; a URL that is too long, one without a host and
\* one whose port makes consolidate raise.
MCHits ==
    {[url |-> Paper, date |-> NoDate, title |-> t1],
     [url |-> Respelled, date |-> 1, title |-> t2],
     [url |-> Paper, date |-> 2, title |-> t2],
     [url |-> Paper, date |-> 3, title |-> t2],
     [url |-> [Paper EXCEPT !.params = "v=1"], date |-> 1, title |-> t2],
     [url |-> Root, date |-> NoDate, title |-> NoTitle],
     [url |-> RootRespelled, date |-> 2, title |-> t1],
     [url |-> [Root EXCEPT !.port = NoPort], date |-> 1, title |-> t1],
     [url |-> [Root EXCEPT !.port = 0], date |-> 1, title |-> t1],
     [url |-> [Root EXCEPT !.path = <<"", "">>], date |-> 1, title |-> t1],
     [url |-> [Paper EXCEPT !.path = <<"p", "q">>], date |-> 1, title |-> t1],
     [url |-> [Paper EXCEPT !.host = None, !.port = 65536], date |-> NoDate, title |-> t1],
     [url |-> [Paper EXCEPT !.port = 65536], date |-> NoDate, title |-> t1]}

=============================================================================
