---- MODULE MCDownloadBoard ----
(* A list of one or two downloads that the backend already has. *)
EXTENDS DownloadBoard

Download(a, s) == [album |-> a, state |-> s, rev |-> 0, attempt |-> 1]
Names == <<1, 2>>
SavedLists ==
    {<<Download(1, "working"), Download(2, "interrupted")>>, <<Download(1, "interrupted")>>}
====
