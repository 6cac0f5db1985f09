--------------------------- MODULE MCStreamClient ---------------------------
EXTENDS StreamClient

MCTopics == <<"order", "execution">>

\* The users are alike, so what holds of one of them holds of all.
Caller == CHOOSE u \in Users : TRUE

\* Every call returns (subscribe, run and isLive of WebSocketClient): none waits for an io
\* thread that goes on, and no locker is kept, also when the io thread has run out of work
\* and is joined and started again.
CallsReturn == Returns(Caller)

\* Once the io thread was started, a thread that keeps asking isLive() is told again and
\* again that the stream is live, although the connection may be lost, a subscribe rejected
\* and the log callback throw while a frame is read: the topic rejected is asked for again
\* and the heartbeat gives up the connection that is not read any more.  It is not so when
\* the callback throws out of a handleError() that was to reconnect: nothing drives the
\* session then, and the premise leaves those behaviours out.
PolledIsLive == SeesLive(Caller)

============================================================================
