SPECIFICATION Spec
CONSTANTS
    TASK_NUM = 3
    Boot = Boot
    Wild = Wild
    Kernel = Kernel
    Garbage = Garbage
PROPERTY
    SyscallSavesRegisters
