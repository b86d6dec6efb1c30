SPECIFICATION FairSpec
CONSTANTS
    Senders = {t1, t2}
INVARIANTS SessionAliveInUse SocketAliveInUse
PROPERTIES SocketReleased
