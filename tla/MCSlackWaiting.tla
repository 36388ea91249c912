--------------------------- MODULE MCSlackWaiting --------------------------
EXTENDS SlackWaiting, TLC

Symmetry == Permutations(Convs)

Said(by, text) == [by |-> by, text |-> text]

MCPosts ==
    {Said("other", text) : text \in Texts} \cup {Said("user", "chat"), Said("bot", "mention")}

\* No conversation is a thread: what is read of one is read newest first.
HistorySpec == Init /\ (\A c \in Convs : ~OldestFirst(c)) /\ [][Next]_vars
============================================================================
