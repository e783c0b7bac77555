----------------------------- MODULE MCEventLoop -----------------------------
EXTENDS EventLoop

CONSTANTS t1, t2

TwoThreads == {t1, t2}
OneClientFd == {4}

ReadOrError == {{READ}, {READ, ERROR_EVENT}, {WRITE}}
=============================================================================
